---- MODULE Spec2Model ----
(***************************************************************************)
(* A model of the dual-commute optimizer: the route-finding engine         *)
(* (src/commute_optimizer.py), the rows of the database it loads           *)
(* (src/database_manager.py) and the HTTP handlers that share one engine   *)
(* instance (src/app.py).                                                  *)
(*                                                                         *)
(* Times are integers counted in tenths of a minute, so the 2.5 minutes    *)
(* per stop are 25 and the 5.0 minutes per transfer are 50.  Every time    *)
(* the engine computes is a sum of these two values, which binary floating *)
(* point represents exactly, so integer arithmetic yields the same         *)
(* comparisons as the code's floats.                                       *)
(*                                                                         *)
(* Station identifiers are the integers 1..NumStations; their integer      *)
(* order stands for the string order of the identifiers, which is what     *)
(* the heap compares when two queue entries have the same time.            *)
(***************************************************************************)
EXTENDS Integers, Sequences, FiniteSets, TLC

(***************************************************************************)
(* Bounds of the model.                                                    *)
(***************************************************************************)
NumStations == 3
MaxOrderLen == 3
MaxBuilds == 2
MaxTimeSteps == 3
MaxTopN == 2
NumRankStations == 4
NumSearchStations == 2
MaxRecords == 2
MaxInserts == 2
MaxCloses == 2
MaxKeys == 2
NumCliStations == 3
MaxServiceBuilds == 3

(***************************************************************************)
(* Program constants (src/config.py), times in tenths of a minute.         *)
(***************************************************************************)
DEFAULT_AVG_TIME_PER_STOP == 25
DEFAULT_TRANSFER_TIME == 50
DEFAULT_MAX_COMMUTE_TIME == 1200
DEFAULT_TOP_N_RESULTS == 10

Stations == 1..NumStations
\* The absent value of a station identifier: a NULL same_as column, or a
\* station-order entry without an "odpt:station" value.
NoStation == 0
\* The display title no other station has unless it is given to it.
TitleName(i) == "Title" \o ToString(i)
RailwayIds == {"R1", "R2"}
\* The absent value of a railway's same_as column.
NullId == "NULL"
Transfer == "Transfer"

VARIABLES
    db,                 \* the database: [stations, railways], each a sequence of rows
    network_graph,      \* CommuteOptimizer.network_graph: station -> sequence of edges
    station_info,       \* CommuteOptimizer.station_info: station -> info record
    railway_info,       \* CommuteOptimizer.railway_info: railway id -> info record
    transfer_stations,  \* CommuteOptimizer.transfer_stations, in insertion order
    builds,             \* how many times build_network has run on this engine
    call,               \* the last operation and its arguments
    result,             \* what the last engine operation returned
    started,            \* the HTTP service: startup_event has completed
    response,           \* the HTTP service: the last response
    manager             \* the TrainDatabaseManager of the running scoped session

engine == <<network_graph, station_info, railway_info, transfer_stations>>
vars == <<db, network_graph, station_info, railway_info, transfer_stations,
          builds, call, result, started, response, manager>>

(***************************************************************************)
(* Helpers on finite functions and sequences.                              *)
(***************************************************************************)
EmptyMap == <<>>

Put(map, key, value) == (key :> value) @@ map

Range(seq) == {seq[i] : i \in DOMAIN seq}

InjectiveSeqs(S, n) ==
    {s \in [1..n -> S] : \A i, j \in 1..n : s[i] = s[j] => i = j}

\* Every order in which the members of a finite set can be listed.
ListingsOf(S) == InjectiveSeqs(S, Cardinality(S))

(***************************************************************************)
(* CommuteOptimizer.build_network and the two passes it calls.             *)
(***************************************************************************)

\* The stored station_order text, decoded: json.loads raises on text that is
\* not JSON, and otherwise yields the list of entries, each represented by
\* its "odpt:station" value (NoStation when the entry has none).
JsonLoads(text) ==
    IF text.valid THEN [raised |-> FALSE, value |-> text.entries]
    ELSE [raised |-> TRUE, value |-> <<>>]

\* json.dumps of a station-order list, as insert_railways stores it.
JsonDumps(entries) == [valid |-> TRUE, entries |-> entries]

\* SELECT ... FROM stations WHERE same_as IS NOT NULL
SelectStations(database) ==
    SelectSeq(database.stations, LAMBDA row : row.same_as # NoStation)

\* SELECT ... FROM railways WHERE same_as IS NOT NULL AND station_order IS NOT NULL
SelectRailways(database) ==
    SelectSeq(database.railways,
              LAMBDA row : row.same_as # NullId /\ ~row.order_is_null)

Edge(to_station, travel_time, railway, num_stops) ==
    [to_station |-> to_station, travel_time |-> travel_time,
     railway |-> railway, num_stops |-> num_stops]

\* The list of a station replaced by the new connection instead of extended.
AddConnectionOverwriting(graph, from_station, e) ==
    IF from_station \in DOMAIN graph
    THEN [graph EXCEPT ![from_station] = <<e>>]
    ELSE (from_station :> <<e>>) @@ graph

\* if x not in network_graph: network_graph[x] = [] ; network_graph[x].append(e)
AddConnection(graph, from_station, e) ==
    IF from_station \in DOMAIN graph
    THEN [graph EXCEPT ![from_station] = Append(@, e)]
    ELSE Put(graph, from_station, <<e>>)

\* network_graph[x].append(e) guarded by "if x in network_graph"
AppendIfPresent(graph, from_station, e) ==
    IF from_station \in DOMAIN graph
    THEN [graph EXCEPT ![from_station] = Append(@, e)]
    ELSE graph

\* transfer_stations[title].add(station_id), creating the set on first use.
\* The dict is kept as a sequence, in insertion order, of [title, ids, order]:
\* order is the order in which the set ids lists its members, which the
\* program does not control and which stays as it is while the set does.
TransferIndexOf(transfers, title) ==
    {i \in DOMAIN transfers : transfers[i].title = title}

AddTransferStation(transfers, title, station_id) ==
    IF TransferIndexOf(transfers, title) = {}
    THEN Append(transfers, [title |-> title, ids |-> {station_id}, order |-> <<>>])
    ELSE LET i == CHOOSE k \in TransferIndexOf(transfers, title) : TRUE
         IN  [transfers EXCEPT ![i].ids = @ \cup {station_id}]

StationInfoOf(row) ==
    [title |-> row.title, title_en |-> row.title_en, railway |-> row.railway,
     latitude |-> row.latitude, longitude |-> row.longitude]

\* The loop over the station rows: station_info and transfer_stations.
RECURSIVE LoadStations(_, _, _)
LoadStations(info, transfers, rows) ==
    IF rows = <<>> THEN [station_info |-> info, transfer_stations |-> transfers]
    ELSE LET row == Head(rows)
         IN  LoadStations(Put(info, row.same_as, StationInfoOf(row)),
                          AddTransferStation(transfers, row.title, row.same_as),
                          Tail(rows))

\* The iteration with the connection back left out.
ProcessOrderPairOneWay(graph, railway, station_order, i) ==
    LET current_station == station_order[i]
        next_station == station_order[i + 1]
    IN  IF current_station = NoStation \/ next_station = NoStation THEN graph
        ELSE IF current_station \in DOMAIN graph
        THEN [graph EXCEPT ![current_station] =
                 Append(@, [to_station |-> next_station,
                            travel_time |-> DEFAULT_AVG_TIME_PER_STOP,
                            railway |-> railway, num_stops |-> 1])]
        ELSE (current_station :> <<[to_station |-> next_station,
                                    travel_time |-> DEFAULT_AVG_TIME_PER_STOP,
                                    railway |-> railway, num_stops |-> 1]>>) @@ graph

\* One iteration of the loop of _process_railway_order, for the pair (i, i+1).
ProcessOrderPair(graph, railway, station_order, i) ==
    LET current_station == station_order[i]
        next_station == station_order[i + 1]
        travel_time == DEFAULT_AVG_TIME_PER_STOP
    IN  IF current_station = NoStation \/ next_station = NoStation THEN graph
        ELSE AddConnection(
                 AddConnection(graph, current_station,
                               Edge(next_station, travel_time, railway, 1)),
                 next_station,
                 Edge(current_station, travel_time, railway, 1))

RECURSIVE ProcessRailwayOrderFrom(_, _, _, _)
ProcessRailwayOrderFrom(graph, railway, station_order, i) ==
    IF i > Len(station_order) - 1 THEN graph
    ELSE ProcessRailwayOrderFrom(
             ProcessOrderPair(graph, railway, station_order, i),
             railway, station_order, i + 1)

ProcessRailwayOrder(graph, railway, station_order) ==
    ProcessRailwayOrderFrom(graph, railway, station_order, 1)

RailwayInfoOf(row) == [title |-> row.title, title_en |-> row.title_en]

\* The loop over the railway rows, were a row whose text does not parse to
\* end the loop instead of being skipped.
RECURSIVE LoadRailwaysBreak(_, _, _)
LoadRailwaysBreak(info, graph, rows) ==
    IF rows = <<>> THEN [railway_info |-> info, network_graph |-> graph]
    ELSE LET row == Head(rows)
             parsed == JsonLoads(row.station_order)
             info2 == Put(info, row.same_as, RailwayInfoOf(row))
         IN  IF parsed.raised
             THEN [railway_info |-> info2, network_graph |-> graph]
             ELSE LoadRailwaysBreak(info2,
                      IF parsed.value # <<>>
                      THEN ProcessRailwayOrder(graph, row.same_as, parsed.value)
                      ELSE graph,
                      Tail(rows))

\* The loop over the railway rows: railway_info is set before the order is
\* parsed; a row whose text does not parse, or parses to an empty list, adds
\* no edge.
RECURSIVE LoadRailways(_, _, _)
LoadRailways(info, graph, rows) ==
    IF rows = <<>> THEN [railway_info |-> info, network_graph |-> graph]
    ELSE LET row == Head(rows)
             parsed == JsonLoads(row.station_order)
             graph2 == IF ~parsed.raised /\ parsed.value # <<>>
                       THEN ProcessRailwayOrder(graph, row.same_as, parsed.value)
                       ELSE graph
         IN  LoadRailways(Put(info, row.same_as, RailwayInfoOf(row)),
                          graph2, Tail(rows))

\* The two nested loops of _add_transfer_connections over one station_list.
RECURSIVE TransferPairs(_, _, _, _)
TransferPairs(graph, station_list, i, j) ==
    IF i > Len(station_list) THEN graph
    ELSE IF j > Len(station_list)
    THEN TransferPairs(graph, station_list, i + 1, i + 2)
    ELSE LET station_a == station_list[i]
             station_b == station_list[j]
             g1 == AppendIfPresent(graph, station_a,
                       Edge(station_b, DEFAULT_TRANSFER_TIME, Transfer, 0))
             g2 == AppendIfPresent(g1, station_b,
                       Edge(station_a, DEFAULT_TRANSFER_TIME, Transfer, 0))
         IN  TransferPairs(g2, station_list, i, j + 1)

\* _add_transfer_connections: for every title with more than one station,
\* the pairs of list(station_ids).
RECURSIVE AddTransferConnectionsFrom(_, _, _)
AddTransferConnectionsFrom(graph, transfers, k) ==
    IF k > Len(transfers) THEN graph
    ELSE LET graph2 == IF Cardinality(transfers[k].ids) > 1
                       THEN TransferPairs(graph, transfers[k].order, 1, 2)
                       ELSE graph
         IN  AddTransferConnectionsFrom(graph2, transfers, k + 1)

AddTransferConnections(graph, transfers) ==
    AddTransferConnectionsFrom(graph, transfers, 1)

\* The station sets after the loop over the station rows.
TransfersAfterLoad(e, database) ==
    LoadStations(e.station_info, e.transfer_stations,
                 SelectStations(database)).transfer_stations

\* The orders the sets of transfer_stations may list their members in after
\* that loop: a set the loop left as it was keeps its order.
RECURSIVE ListOrdersUpTo(_, _, _)
ListOrdersUpTo(before, after, k) ==
    IF k = 0 THEN {<<>>}
    ELSE LET kept == k <= Len(before) /\ before[k].ids = after[k].ids
                          /\ Len(before[k].order) = Cardinality(before[k].ids)
             listings == IF kept THEN {before[k].order} ELSE ListingsOf(after[k].ids)
         IN  {Append(p, l) : p \in ListOrdersUpTo(before, after, k - 1), l \in listings}

ListOrders(e, database) ==
    ListOrdersUpTo(e.transfer_stations, TransfersAfterLoad(e, database),
                   Len(TransfersAfterLoad(e, database)))

WithListOrder(transfers, list_order) ==
    [k \in DOMAIN transfers |-> [transfers[k] EXCEPT !.order = list_order[k]]]

\* build_network on an engine state e, over the rows of database.
BuildNetwork(e, database, list_order) ==
    LET loaded == LoadStations(e.station_info, e.transfer_stations,
                               SelectStations(database))
        transfers == WithListOrder(loaded.transfer_stations, list_order)
        lines == LoadRailways(e.railway_info, e.network_graph,
                              SelectRailways(database))
    IN  [network_graph |-> AddTransferConnections(lines.network_graph, transfers),
         station_info |-> loaded.station_info,
         railway_info |-> lines.railway_info,
         transfer_stations |-> transfers,
         builds |-> e.builds + 1]

Engine ==
    [network_graph |-> network_graph, station_info |-> station_info,
     railway_info |-> railway_info, transfer_stations |-> transfer_stations,
     builds |-> builds]

SetEngine(e) ==
    /\ network_graph' = e.network_graph
    /\ station_info' = e.station_info
    /\ railway_info' = e.railway_info
    /\ transfer_stations' = e.transfer_stations
    /\ builds' = e.builds

\* CommuteOptimizer.__init__
NewEngine ==
    [network_graph |-> EmptyMap, station_info |-> EmptyMap,
     railway_info |-> EmptyMap, transfer_stations |-> <<>>, builds |-> 0]

(***************************************************************************)
(* CommuteOptimizer._dijkstra_with_path.                                   *)
(***************************************************************************)
\* A segment with its two stations exchanged.
RouteSegmentReversed(from_station, to_station, railway, travel_time, num_stops) ==
    [from_station |-> to_station, to_station |-> from_station,
     railway |-> railway, travel_time |-> travel_time, num_stops |-> num_stops]

RouteSegment(from_station, to_station, railway, travel_time, num_stops) ==
    [from_station |-> from_station, to_station |-> to_station,
     railway |-> railway, travel_time |-> travel_time, num_stops |-> num_stops]

RECURSIVE SumStops(_)
SumStops(segments) ==
    IF segments = <<>> THEN 0
    ELSE Head(segments).num_stops + SumStops(Tail(segments))

Route(segments, total_time, total_stops) ==
    [segments |-> segments, total_time |-> total_time, total_stops |-> total_stops]

\* Tuple order of the heap entries (time, station, path_segments), decided by
\* the first two components.
EntryBefore(x, y) ==
    x.time < y.time \/ (x.time = y.time /\ x.station <= y.station)

\* heappop: the least entry of the queue.
HeapMin(pq) == CHOOSE x \in pq : \A y \in pq : EntryBefore(x, y)

\* The state of the search before the loop.  Each heap entry carries the
\* number of the push that made it, and pushes lists the (time, station) of
\* every push in order.
DijkstraInit(start_station) ==
    [distances |-> (start_station :> [time |-> 0, route |-> Route(<<>>, 0, 0)]),
     pq |-> {[time |-> 0, station |-> start_station, path |-> <<>>, seq |-> 1]},
     pushes |-> <<[time |-> 0, station |-> start_station]>>,
     visited |-> {}]

\* Variants of the test with a slip: the bound applied to the time at which
\* the edge is entered, and the comparison turned round.
WithinBoundOfDeparture(new_time, max_time) ==
    new_time - DEFAULT_AVG_TIME_PER_STOP <= max_time

WithinBoundReversed(new_time, max_time) == new_time >= max_time

\* Variants of the test that records a better time: only the first time
\* found is kept, and a time that is merely equal is recorded again.
ImprovesFirstOnly(distances, next_station, new_time) ==
    next_station \notin DOMAIN distances

ImprovesOrEqual(distances, next_station, new_time) ==
    next_station \notin DOMAIN distances \/ new_time <= distances[next_station].time

\* The test on an edge: it is relaxed when it stays within max_time.
WithinBound(new_time, max_time) == new_time <= max_time

\* The test that records a better time for next_station.
Improves(distances, next_station, new_time) ==
    next_station \notin DOMAIN distances \/ new_time < distances[next_station].time

\* The body of "for connection in network_graph[current_station]" for one
\* connection.
RelaxConnection(st, current, connection, max_time) ==
    LET next_station == connection.to_station
        new_time == current.time + connection.travel_time
        segment == RouteSegment(current.station, next_station, connection.railway,
                                connection.travel_time, connection.num_stops)
        new_path == Append(current.path, segment)
        new_route == Route(new_path, new_time, SumStops(new_path))
    IN  IF WithinBound(new_time, max_time)
           /\ Improves(st.distances, next_station, new_time)
        THEN [st EXCEPT
                 !.distances = Put(@, next_station,
                                   [time |-> new_time, route |-> new_route]),
                 !.pq = @ \cup {[time |-> new_time, station |-> next_station,
                                 path |-> new_path, seq |-> Len(st.pushes) + 1]},
                 !.pushes = Append(@, [time |-> new_time,
                                       station |-> next_station])]
        ELSE st

RECURSIVE RelaxConnections(_, _, _, _, _)
RelaxConnections(st, current, connections, i, max_time) ==
    IF i > Len(connections) THEN st
    ELSE RelaxConnections(RelaxConnection(st, current, connections[i], max_time),
                          current, connections, i + 1, max_time)

\* One iteration of "while pq".
DijkstraStep(graph, st, max_time) ==
    LET current == HeapMin(st.pq)
        popped == [st EXCEPT !.pq = @ \ {current}]
        marked == [popped EXCEPT !.visited = @ \cup {current.station}]
    IN  IF current.station \in st.visited THEN popped
        ELSE IF current.time > max_time THEN marked
        ELSE IF current.station \notin DOMAIN graph THEN marked
        ELSE RelaxConnections(marked, current, graph[current.station], 1, max_time)

RECURSIVE DijkstraLoop(_, _, _)
DijkstraLoop(graph, st, max_time) ==
    IF st.pq = {} THEN st.distances
    ELSE DijkstraLoop(graph, DijkstraStep(graph, st, max_time), max_time)

DijkstraWithPath(graph, start_station, max_time) ==
    DijkstraLoop(graph, DijkstraInit(start_station), max_time)

(***************************************************************************)
(* CommuteOptimizer.find_optimal_stations.                                 *)
(***************************************************************************)
\* The difference kept with its sign.
AbsSigned(x) == x

Abs(x) == IF x < 0 THEN -x ELSE x

\* The subtraction with its operands exchanged.
BalanceScoreExchanged(time_diff, max_time) ==
    [num |-> time_diff - max_time, den |-> max_time]

\* 1 - (time_diff / max_time), kept as the exact fraction num / den.
BalanceScore(time_diff, max_time) ==
    [num |-> max_time - time_diff, den |-> max_time]

\* station_info.get(station, {}).get("title", "Unknown")
StationName(info, station) ==
    IF station \in DOMAIN info THEN info[station].title ELSE "Unknown"

\* The MeetingPoint built for one common station.
MeetingPoint(info, routes_from_a, routes_from_b, station, max_time) ==
    LET time_a == routes_from_a[station].time
        time_b == routes_from_b[station].time
        total_time == time_a + time_b
        time_diff == Abs(time_a - time_b)
    IN  [station_id |-> station,
         station_name |-> StationName(info, station),
         route_from_a |-> routes_from_a[station].route,
         route_from_b |-> routes_from_b[station].route,
         total_time |-> total_time,
         time_difference |-> time_diff,
         balance_score |-> BalanceScore(time_diff, max_time)]

\* The sort key (x.total_time, x.time_difference), compared as a tuple.
KeyLess(x, y) ==
    x.total_time < y.total_time
    \/ (x.total_time = y.total_time /\ x.time_difference < y.time_difference)

\* list.sort is stable: x goes behind every element whose key is not greater.
RECURSIVE InsertSorted(_, _)
InsertSorted(sorted, x) ==
    IF sorted = <<>> THEN <<x>>
    ELSE IF KeyLess(x, Head(sorted)) THEN <<x>> \o sorted
    ELSE <<Head(sorted)>> \o InsertSorted(Tail(sorted), x)

\* The candidates left in the order the loop built them in.
SortCandidatesUnsorted(sorted, rest) == sorted \o rest

RECURSIVE SortCandidates(_, _)
SortCandidates(sorted, rest) ==
    IF rest = <<>> THEN sorted
    ELSE SortCandidates(InsertSorted(sorted, Head(rest)), Tail(rest))

Min(a, b) == IF a <= b THEN a ELSE b
Max(a, b) == IF a >= b THEN a ELSE b

\* The slice taken from the end of the list.
SliceFromEnd(seq, top_n) ==
    SubSeq(seq, Len(seq) - Min(top_n, Len(seq)) + 1, Len(seq))

\* The slice candidates[:top_n].
SliceTo(seq, top_n) ==
    IF top_n >= 0 THEN SubSeq(seq, 1, Min(top_n, Len(seq)))
    ELSE SubSeq(seq, 1, Max(Len(seq) + top_n, 0))

\* The intersection with the two discard calls left out.
CommonStationsWithOrigins(routes_from_a, routes_from_b, work_station_a, work_station_b) ==
    (DOMAIN routes_from_a) \cap (DOMAIN routes_from_b)

\* set(routes_from_a) & set(routes_from_b), less the two work stations.
CommonStations(routes_from_a, routes_from_b, work_station_a, work_station_b) ==
    ((DOMAIN routes_from_a) \cap (DOMAIN routes_from_b))
        \ {work_station_a, work_station_b}

\* The loop over the common stations, the sort and the slice.  "for station
\* in common_stations" visits a set in an order the program does not
\* control: iteration is that order.  Dividing by a max_time of zero raises
\* ZeroDivisionError.
RankStations(info, routes_from_a, routes_from_b, top_n, max_time, iteration) ==
    LET candidates == [i \in DOMAIN iteration |->
                          MeetingPoint(info, routes_from_a, routes_from_b,
                                       iteration[i], max_time)]
    IN  IF iteration # <<>> /\ max_time = 0
        THEN [raised |-> "ZeroDivisionError", distances |-> EmptyMap,
              candidates |-> <<>>]
        ELSE [raised |-> "", distances |-> EmptyMap,
              candidates |-> SliceTo(SortCandidates(<<>>, candidates), top_n)]

\* The test "if not <dict>" that precedes every lazy build.
NeedsBuild(map) == map = EmptyMap

\* "if not self.network_graph: self.build_network()"
BuildIfNoGraph(e, database, list_order) ==
    IF NeedsBuild(e.network_graph) THEN BuildNetwork(e, database, list_order) ELSE e

\* "if not optimizer.<dict>: optimizer.build_network()" of the HTTP handlers.
BuildIfEmpty(map, e, database, list_order) ==
    IF NeedsBuild(map) THEN BuildNetwork(e, database, list_order) ELSE e

(***************************************************************************)
(* CommuteOptimizer.search_station.  A text is the sequence of its         *)
(* characters; None is kept apart from every text.                         *)
(***************************************************************************)
None == <<"None">>

\* str.lower on one character and on a text.
LowerChar(c) == IF c = "A" THEN "a" ELSE IF c = "B" THEN "b" ELSE c

Lower(text) == [i \in DOMAIN text |-> LowerChar(text[i])]

\* The operator "in" on two texts.
Contains(text, part) ==
    \E k \in 0..(Len(text) - Len(part)) :
        SubSeq(text, k + 1, k + Len(part)) = part

\* The code points that order two texts.
CodePoint(c) ==
    CASE c = "A" -> 65 [] c = "B" -> 66 [] c = "a" -> 97 [] c = "b" -> 98
      [] c = "k" -> 107 [] c = "m" -> 109

RECURSIVE TextLess(_, _)
TextLess(x, y) ==
    IF y = <<>> THEN FALSE
    ELSE IF x = <<>> THEN TRUE
    ELSE IF Head(x) = Head(y) THEN TextLess(Tail(x), Tail(y))
    ELSE CodePoint(Head(x)) < CodePoint(Head(y))

\* sorted(results, key=lambda x: x[1]): stable, by title.
RECURSIVE InsertByTitle(_, _)
InsertByTitle(sorted, x) ==
    IF sorted = <<>> THEN <<x>>
    ELSE IF TextLess(x.title, Head(sorted).title) THEN <<x>> \o sorted
    ELSE <<Head(sorted)>> \o InsertByTitle(Tail(sorted), x)

RECURSIVE SortByTitle(_, _)
SortByTitle(sorted, rest) ==
    IF rest = <<>> THEN sorted
    ELSE SortByTitle(InsertByTitle(sorted, Head(rest)), Tail(rest))

\* station_info.items(): the dict lists the stations in the order the rows
\* were loaded in, which is the order of their identifiers.
RECURSIVE ItemsOf(_)
ItemsOf(info) ==
    IF DOMAIN info = {} THEN <<>>
    ELSE LET station_id == CHOOSE x \in DOMAIN info : \A y \in DOMAIN info : x <= y
         IN  <<station_id>>
                 \o ItemsOf([y \in DOMAIN info \ {station_id} |-> info[y]])

\* The test of the loop for one station: "or" evaluates title_en.lower()
\* only when the title does not contain the term, and .lower() on None
\* raises AttributeError.
Matches(info, search_term_lower) ==
    LET title == info.title
        title_en == info.title_en
    IN  IF title = None THEN [raised |-> "AttributeError", matches |-> FALSE]
        ELSE IF Contains(Lower(title), search_term_lower)
        THEN [raised |-> "", matches |-> TRUE]
        ELSE IF title_en = None THEN [raised |-> "AttributeError", matches |-> FALSE]
        ELSE [raised |-> "", matches |-> Contains(Lower(title_en), search_term_lower)]

\* The loop of search_station from the k-th station on.
RECURSIVE SearchFrom(_, _, _, _, _)
SearchFrom(info, items, k, search_term_lower, results) ==
    IF k > Len(items) THEN [raised |-> "", results |-> SortByTitle(<<>>, results)]
    ELSE LET station_id == items[k]
             m == Matches(info[station_id], search_term_lower)
         IN  IF m.raised # "" THEN [raised |-> m.raised, results |-> <<>>]
             ELSE SearchFrom(info, items, k + 1, search_term_lower,
                      IF m.matches
                      THEN Append(results,
                               [station_id |-> station_id,
                                title |-> info[station_id].title,
                                title_en |-> info[station_id].title_en,
                                railway |-> info[station_id].railway])
                      ELSE results)

SearchStation(info, search_term) ==
    SearchFrom(info, ItemsOf(info), 1, Lower(search_term), <<>>)

(***************************************************************************)
(* TrainDatabaseManager (src/database_manager.py).                         *)
(***************************************************************************)

\* TrainDatabaseManager.__init__: conn is None.  pc is the position of the
\* "with" statement that uses the manager, raised whether its body raised.
NewManager ==
    [op |-> "none", pc |-> "new", conn |-> "None", raised |-> FALSE,
     cleared |-> FALSE, inserts |-> 0, closes |-> 0]

\* connect: sqlite3.connect returns a connection or raises.
Connect(m, opens) ==
    IF opens THEN [m EXCEPT !.conn = "open"] ELSE m

\* close: "if self.conn: self.conn.close()"; closing a closed connection
\* raises nothing.
Close(m) ==
    IF m.conn # "None" THEN [m EXCEPT !.conn = "closed"] ELSE m

\* An exit that releases the connection only when the body has not raised.
ManagerExitOnSuccess(m) == IF m.raised THEN m ELSE Close(m)

\* __exit__: close, whatever the body did; the exception is not swallowed.
ManagerExit(m) == Close(m)

\* A station record of the API, as far as insert_stations reads it.
StationRecord(id, title, is_dict) ==
    [id |-> id, title |-> title,
     stationTitle |-> [is_dict |-> is_dict, en |-> <<"A", "b">>],
     railway |-> "R1", lat |-> 0, long |-> 0, sameAs |-> 1]

\* The row insert_stations stores for a record: title_en is the "en" of the
\* "odpt:stationTitle" object, None when the record has no such object.
StationRowOf(station) ==
    [id |-> station.id,
     title |-> station.title,
     title_en |-> IF station.stationTitle.is_dict
                  THEN station.stationTitle.en ELSE None,
     railway |-> station.railway,
     latitude |-> station.lat,
     longitude |-> station.long,
     same_as |-> station.sameAs]

\* INSERT that leaves a row with the same id as it is.
InsertOrIgnore(table, row) ==
    IF row.id # NullId /\ \E k \in DOMAIN table : table[k].id = row.id
    THEN table
    ELSE Append(table, row)

\* INSERT OR REPLACE on the primary key id: the row with that id, if any, is
\* deleted and the new row added; a NULL id conflicts with no row.
InsertOrReplace(table, row) ==
    IF row.id = NullId THEN Append(table, row)
    ELSE Append(SelectSeq(table, LAMBDA old : old.id # row.id), row)

\* insert_stations: the loop over the records.
RECURSIVE InsertStations(_, _)
InsertStations(table, stations) ==
    IF stations = <<>> THEN table
    ELSE InsertStations(InsertOrReplace(table, StationRowOf(Head(stations))),
                        Tail(stations))

\* The tables of create_schema, which clear_all_data names one by one.
Tables == {"trains", "railways", "stations", "station_timetables", "train_timetables"}

\* create_schema: CREATE TABLE IF NOT EXISTS adds the tables the database
\* lacks and leaves the others with their rows.
CreateSchema(database) ==
    [t \in Tables \cup DOMAIN database |->
        IF t \in DOMAIN database THEN database[t] ELSE <<>>]

\* A clear_all_data that deletes nothing.
ClearNothing(database) == database

\* clear_all_data: DELETE FROM each of the five tables.
ClearAllData(database) ==
    [t \in DOMAIN database |-> IF t \in Tables THEN <<>> ELSE database[t]]

\* The row insert_railways stores for a record: the station order is stored
\* as its json.dumps text, the empty list when the record has none.
RailwayRowOf(railway) ==
    [id |-> railway.id,
     title |-> railway.title,
     title_en |-> "Line",
     station_order |-> JsonDumps(railway.stationOrder),
     order_is_null |-> FALSE,
     same_as |-> railway.sameAs]

\* insert_railways: the loop over the records.
RECURSIVE InsertRailways(_, _)
InsertRailways(table, railways) ==
    IF railways = <<>> THEN table
    ELSE InsertRailways(InsertOrReplace(table, RailwayRowOf(Head(railways))),
                        Tail(railways))

(***************************************************************************)
(* DataFetcher (src/data_fetcher.py) and the fetch command (src/cli.py).   *)
(* What the remote API answers to the requests for one operator is an      *)
(* input, fetch: "data" (both requests answer with records), "empty"       *)
(* (both answer with no record), "stations_raise" (the Station request      *)
(* raises), "railways_raise" (the Railway request raises after the         *)
(* Station request has answered) and "no_credential" (the environment has  *)
(* no API key for the operator, so that no request is sent).               *)
(***************************************************************************)
OPERATORS == <<"JR_EAST", "TOKYO_METRO", "KEIKYU">>

Fetches == {"data", "empty", "stations_raise", "railways_raise", "no_credential"}

\* _fetch_data: the records of the answer, or an exception; requested tells
\* whether requests.get was called, which the missing key forestalls.
FetchData(resource_type, operator_key, fetch) ==
    [raised |-> \/ resource_type = "Station" /\ fetch = "stations_raise"
                \/ resource_type = "Railway" /\ fetch = "railways_raise"
                \/ fetch = "no_credential",
     requested |-> fetch # "no_credential",
     data |-> IF fetch = "empty" THEN <<>>
              ELSE IF resource_type = "Station"
                   THEN <<StationRecord(operator_key, <<"k">>, TRUE)>>
                   ELSE <<[id |-> operator_key, title |-> "Line",
                           stationOrder |-> <<>>, sameAs |-> operator_key]>>]

\* The resource types requests.get is called for, in order: the Railway
\* call is reached only when the Station call has returned.
RequestsSent(stations, railways) ==
    (IF stations.requested THEN <<"Station">> ELSE <<>>)
        \o (IF ~stations.raised /\ railways.requested THEN <<"Railway">> ELSE <<>>)

\* fetch_operator_data without its try statement.
FetchOperatorDataUnguarded(operator_key, fetch) ==
    LET stations == FetchData("Station", operator_key, fetch)
        railways == FetchData("Railway", operator_key, fetch)
    IN  IF operator_key \notin Range(OPERATORS)
        THEN [raised |-> "ValueError", fetched |-> FALSE,
              stations |-> <<>>, railways |-> <<>>, requests |-> <<>>]
        ELSE IF stations.raised \/ railways.raised
        THEN [raised |-> "RequestException", fetched |-> TRUE,
              stations |-> <<>>, railways |-> <<>>,
              requests |-> RequestsSent(stations, railways)]
        ELSE [raised |-> "", fetched |-> TRUE,
              stations |-> stations.data, railways |-> railways.data,
              requests |-> RequestsSent(stations, railways)]

\* A fetch_operator_data whose handler returns the stations fetched before
\* the Railway request raised.
FetchOperatorDataKeepingStations(operator_key, fetch) ==
    LET stations == FetchData("Station", operator_key, fetch)
        railways == FetchData("Railway", operator_key, fetch)
    IN  IF operator_key \notin Range(OPERATORS)
        THEN [raised |-> "ValueError", fetched |-> FALSE,
              stations |-> <<>>, railways |-> <<>>, requests |-> <<>>]
        ELSE [raised |-> "", fetched |-> TRUE,
              stations |-> IF stations.raised THEN <<>> ELSE stations.data,
              railways |-> IF stations.raised \/ railways.raised
                           THEN <<>> ELSE railways.data,
              requests |-> RequestsSent(stations, railways)]

\* fetch_operator_data: ValueError for a key that is not configured, before
\* any request; both lists empty when either request raises.
FetchOperatorData(operator_key, fetch) ==
    LET stations == FetchData("Station", operator_key, fetch)
        railways == FetchData("Railway", operator_key, fetch)
    IN  IF operator_key \notin Range(OPERATORS)
        THEN [raised |-> "ValueError", fetched |-> FALSE,
              stations |-> <<>>, railways |-> <<>>, requests |-> <<>>]
        ELSE IF stations.raised \/ railways.raised
        THEN [raised |-> "", fetched |-> TRUE,
              stations |-> <<>>, railways |-> <<>>,
              requests |-> RequestsSent(stations, railways)]
        ELSE [raised |-> "", fetched |-> TRUE,
              stations |-> stations.data, railways |-> railways.data,
              requests |-> RequestsSent(stations, railways)]

\* all_data[operator_key] = data: a dict keeps the position of a key it has.
DictSet(all_data, operator_key, data) ==
    LET entry == [key |-> operator_key, stations |-> data.stations,
                  railways |-> data.railways]
    IN  IF \E k \in DOMAIN all_data : all_data[k].key = operator_key
        THEN [k \in DOMAIN all_data |->
                 IF all_data[k].key = operator_key THEN entry ELSE all_data[k]]
        ELSE Append(all_data, entry)

\* fetch_all_operators: the loop from the i-th key on; fetches counts the
\* operators that requests were sent for.
RECURSIVE FetchAllOperatorsFrom(_, _, _, _, _)
FetchAllOperatorsFrom(operator_keys, fetch, i, all_data, fetches) ==
    IF i > Len(operator_keys)
    THEN [raised |-> "", all_data |-> all_data, fetches |-> fetches]
    ELSE LET data == FetchOperatorData(operator_keys[i], fetch[i])
         IN  IF data.raised # ""
             THEN [raised |-> data.raised, all_data |-> all_data,
                   fetches |-> fetches + (IF data.fetched THEN 1 ELSE 0)]
             ELSE FetchAllOperatorsFrom(operator_keys, fetch, i + 1,
                                        DictSet(all_data, operator_keys[i], data),
                                        fetches + 1)

\* fetch_all_operators: None stands for every configured operator.
FetchAllOperators(operator_keys, fetch) ==
    FetchAllOperatorsFrom(IF operator_keys = None THEN OPERATORS ELSE operator_keys,
                          fetch, 1, <<>>, 0)

\* populate_database: the loop over data.items() from the i-th entry on.
RECURSIVE PopulateFrom(_, _, _)
PopulateFrom(database, data, i) ==
    IF i > Len(data) THEN database
    ELSE PopulateFrom(
             [database EXCEPT
                 !.stations = IF data[i].stations # <<>>
                              THEN InsertStations(@, data[i].stations)
                              ELSE @,
                 !.railways = IF data[i].railways # <<>>
                              THEN InsertRailways(@, data[i].railways)
                              ELSE @],
             data, i + 1)

\* populate_database: one scoped session that clears the tables and stores
\* the lists that are not empty.
PopulateDatabase(database, data) ==
    PopulateFrom(ClearAllData(CreateSchema(database)), data, 1)

\* A fetch_and_populate that stores what was fetched before the exception.
FetchAndPopulatePartial(database, operator_keys, fetch) ==
    LET fetched == FetchAllOperators(operator_keys, fetch)
    IN  [raised |-> fetched.raised, fetches |-> fetched.fetches,
         db |-> PopulateDatabase(database, fetched.all_data)]

\* fetch_and_populate: an exception of fetch_all_operators leaves before
\* populate_database is called.
FetchAndPopulate(database, operator_keys, fetch) ==
    LET fetched == FetchAllOperators(operator_keys, fetch)
    IN  [raised |-> fetched.raised, fetches |-> fetched.fetches,
         db |-> IF fetched.raised # "" THEN database
                ELSE PopulateDatabase(database, fetched.all_data)]

\* op.strip().upper() on the pieces of the --operators text.
StripUpper(op) ==
    CASE op = " jr_east" -> "JR_EAST"
      [] op = "keikyu " -> "KEIKYU"
      [] op = "Tokyo_Metro" -> "TOKYO_METRO"
      [] op = "metro" -> "METRO"
      [] OTHER -> op

\* cmd_fetch: operators is None when the option is absent, else the pieces
\* of its text between commas.
CmdFetch(database, operators, fetch) ==
    LET operator_keys == IF operators = None THEN None
                         ELSE [k \in DOMAIN operators |-> StripUpper(operators[k])]
        invalid == IF operators = None THEN <<>>
                   ELSE SelectSeq(operator_keys, LAMBDA op : op \notin Range(OPERATORS))
        stats == FetchAndPopulate(database, operator_keys, fetch)
    IN  IF invalid # <<>>
        THEN [exit |-> 1, raised |-> "", fetches |-> 0, db |-> database]
        ELSE [exit |-> IF stats.raised = "" THEN 0 ELSE 1, raised |-> "",
              fetches |-> stats.fetches, db |-> stats.db]

(***************************************************************************)
(* The analyze command (src/cli.py).                                       *)
(***************************************************************************)

\* The selection among the search results of one name: the only result, or
\* the one whose number is typed at the prompt.
SelectStation(results, choice) ==
    LET idx == choice.value - 1
    IN  IF Len(results) = 1
        THEN [ok |-> TRUE, prompts |-> 0, station_id |-> results[1].station_id]
        ELSE IF choice.numeric /\ 0 <= idx /\ idx < Len(results)
        THEN [ok |-> TRUE, prompts |-> 1, station_id |-> results[idx + 1].station_id]
        ELSE [ok |-> FALSE, prompts |-> 1, station_id |-> NoStation]

\* cmd_analyze up to the ranking: both searches, then both selections.  An
\* exception of search_station is not caught and ends the process.
ResolveStations(results_a, results_b, choice_a, choice_b) ==
    LET selected_a == SelectStation(results_a.results, choice_a)
        selected_b == SelectStation(results_b.results, choice_b)
        failed(raised, prompts) ==
            [ok |-> FALSE, raised |-> raised, prompts |-> prompts,
             a |-> NoStation, b |-> NoStation]
    IN  IF results_a.raised # "" THEN failed(results_a.raised, 0)
        ELSE IF results_a.results = <<>> THEN failed("", 0)
        ELSE IF results_b.raised # "" THEN failed(results_b.raised, 0)
        ELSE IF results_b.results = <<>> THEN failed("", 0)
        ELSE IF ~selected_a.ok THEN failed("", selected_a.prompts)
        ELSE IF ~selected_b.ok
        THEN failed("", selected_a.prompts + selected_b.prompts)
        ELSE [ok |-> TRUE, raised |-> "",
              prompts |-> selected_a.prompts + selected_b.prompts,
              a |-> selected_a.station_id, b |-> selected_b.station_id]

\* An exit code that does not look at the ranking.
ExitCodeOfSuccess(ranking) == 0

\* The exit code once the ranking has run: 1 when it raised or returned no
\* candidate, 0 otherwise.
ExitCode(ranking) ==
    IF ranking.raised # "" \/ ranking.candidates = <<>> THEN 1 ELSE 0

(***************************************************************************)
(* The databases the engine is run over.  A station row is what            *)
(* insert_stations stores of a record, a railway row what insert_railways  *)
(* stores: station_order is always the JSON text of a list (never NULL),   *)
(* and same_as is NULL when the record carries no "owl:sameAs".            *)
(***************************************************************************)
StationRow(same_as, title) ==
    [same_as |-> same_as, title |-> title, title_en |-> "En",
     railway |-> "R1", latitude |-> 0, longitude |-> 0]

RailwayRow(same_as, station_order) ==
    [same_as |-> same_as, title |-> "Line", title_en |-> "Line",
     station_order |-> station_order, order_is_null |-> FALSE]

\* Text that json.loads rejects.
MalformedText == [valid |-> FALSE, entries |-> <<>>]

\* The ways to give titles to the stations 1..n: station i has its own
\* title, or the title of an earlier station that has its own; at most
\* maxShared stations have an earlier station's title.
TitleChoices(n, maxShared) ==
    {c \in [1..n -> 1..n] :
        /\ \A i \in 1..n : c[i] <= i /\ c[c[i]] = c[i]
        /\ Cardinality({i \in 1..n : c[i] # i}) <= maxShared}

\* The station tables over the stations 1..n: one row per station, in
\* identifier order.
StationTables(n, maxShared) ==
    {[i \in 1..n |-> StationRow(i, TitleName(c[i]))] : c \in TitleChoices(n, maxShared)}

\* The same tables with the last row lacking its same_as.
StationTablesWithNull(n) ==
    {[t EXCEPT ![n].same_as = NoStation] : t \in StationTables(n, n)}

\* Station orders that name each entry at most once, of lo..hi entries.
OrdersOver(S, lo, hi) == UNION {InjectiveSeqs(S, n) : n \in lo..hi}

\* The orders that name two stations; their direction adds the same edges.
PairsOver(S) == {o \in InjectiveSeqs(S, 2) : o[1] < o[2]}

RailwayRows(ids, orders) ==
    {RailwayRow(id, JsonDumps(o)) : id \in ids, o \in orders}

\* The railway tables: no row, one row, or two rows.
RailwayTables(firstRows, secondRows) ==
    {<<>>} \cup {<<r>> : r \in firstRows}
           \cup {<<r1, r2>> : r1 \in firstRows, r2 \in secondRows}

Databases(stationTables, railwayTables) ==
    [stations : stationTables, railways : railwayTables]

\* For the construction of the graph: any titles; the first railway has any
\* order text, entries without a station and malformed text included; the
\* second names two stations or is malformed, and may lack its same_as.
BuildDatabases ==
    Databases(StationTables(NumStations, NumStations)
                  \cup StationTablesWithNull(NumStations),
        RailwayTables(
            RailwayRows({"R1"}, OrdersOver(Stations \cup {NoStation}, 0, MaxOrderLen))
                \cup {RailwayRow("R1", MalformedText)},
            RailwayRows({"R2"}, PairsOver(Stations))
                \cup {RailwayRow("R2", MalformedText),
                      RailwayRow(NullId, JsonDumps(<<1, 2>>))}))

\* For the shortest-path search: at most two stations share a title, the
\* first railway names MaxOrderLen stations in any order, the second (if
\* any) two.
SearchDatabases ==
    Databases(StationTables(NumStations, 1),
        RailwayTables(
            RailwayRows({"R1"}, OrdersOver(Stations, MaxOrderLen, MaxOrderLen)),
            RailwayRows({"R2"}, PairsOver(Stations))) \ {<<>>})

\* For the ranking: one more station, so that several stations can be
\* candidates at once; the first railway is the line 1, 2, .., n and the
\* second (if any) joins any two stations.
RankStationIds == 1..NumRankStations

RankDatabases ==
    Databases(StationTables(NumRankStations, 1),
        RailwayTables(
            RailwayRows({"R1"}, {[i \in RankStationIds |-> i]}),
            RailwayRows({"R2"}, PairsOver(RankStationIds))) \ {<<>>})

\* The same line, alone or with a second railway that joins the first
\* station to a station that is not its neighbour.
ShortcutDatabases ==
    Databases(StationTables(NumRankStations, 1),
        {<<RailwayRow("R1", JsonDumps([i \in RankStationIds |-> i]))>>}
            \cup {<<RailwayRow("R1", JsonDumps([i \in RankStationIds |-> i])),
                    RailwayRow("R2", JsonDumps(<<1, j>>))>> :
                      j \in 3..NumRankStations})

\* The databases of the graph construction that hold a railway row whose
\* station-order text json.loads rejects.
MalformedDatabases ==
    {d \in BuildDatabases :
        \E k \in DOMAIN d.railways : ~d.railways[k].station_order.valid}

\* The example of two railways that share their middle station: the station
\* orders [S1, S2, S3] and [S4, S2, S5], every station with a title of its own.
EndToEndDatabase ==
    [stations |-> [i \in 1..5 |-> StationRow(i, TitleName(i))],
     railways |-> <<RailwayRow("R1", JsonDumps(<<1, 2, 3>>)),
                    RailwayRow("R2", JsonDumps(<<4, 2, 5>>))>>]

\* For the HTTP service: no station row or a row for every station, each
\* with a title of its own or lacking its same_as; no railway or the line
\* 1, 2, .., n.
ServiceDatabases ==
    Databases({<<>>, [i \in Stations |-> StationRow(i, TitleName(i))],
               [i \in Stations |-> StationRow(NoStation, TitleName(i))]},
              {<<>>, <<RailwayRow("R1", JsonDumps([i \in Stations |-> i]))>>})

\* For the search by name: the local-language titles have no case, the
\* English title is absent (no bilingual title object in the record) or a
\* text in two cases.
LocalTitles == {<<"k">>, <<"m">>}
EnglishTitles == {None, <<"A", "b">>, <<"b", "a">>}
SearchTerms == {<<>>, <<"a">>, <<"B">>, <<"a", "B">>, <<"k">>}

TitledRow(same_as, title, title_en) ==
    [same_as |-> same_as, title |-> title, title_en |-> title_en,
     railway |-> "R1", latitude |-> 0, longitude |-> 0]

SearchStationIds == 1..NumSearchStations

TitledTables ==
    {[i \in SearchStationIds |-> TitledRow(i, t[i], e[i])] :
        t \in [SearchStationIds -> LocalTitles],
        e \in [SearchStationIds -> EnglishTitles]}

TitledDatabases ==
    Databases(TitledTables,
              {<<RailwayRow("R1", JsonDumps([i \in SearchStationIds |-> i]))>>})

\* The station records given to insert_stations: with an identifier or
\* without one, with a bilingual title object or without one.
StationRecords ==
    {StationRecord("S1", title, TRUE) : title \in LocalTitles}
        \cup {StationRecord("S2", <<"k">>, FALSE), StationRecord(NullId, <<"k">>, TRUE)}

\* The lists of records of one call: distinct records, or one record twice.
StationRecordLists ==
    OrdersOver(StationRecords, 1, MaxRecords)
        \cup {<<r, r>> : r \in {StationRecord("S1", <<"k">>, TRUE)}}

\* The operator keys given to the DataFetcher: configured ones and one that
\* is not, in any order and with repetitions; None for "every operator".
OperatorKeyLists ==
    {None} \cup UNION {[1..n -> Range(OPERATORS) \cup {"METRO"}] : n \in 0..MaxKeys}

\* The pieces of the --operators text of the fetch command.
OperatorTexts ==
    {None} \cup UNION {[1..n -> {"JR_EAST", " jr_east", "keikyu ", "Tokyo_Metro",
                                  "metro", ""}] : n \in 1..MaxKeys}

\* What the API answers for the operator at each position of the list.
FetchesFor(operator_keys) ==
    [1..(IF operator_keys = None THEN Len(OPERATORS) ELSE Len(operator_keys))
        -> Fetches]

\* The databases a fetch starts from: the empty one and those an earlier
\* fetch of one operator, or of every operator, has populated.
FetchDatabases ==
    {PopulateDatabase([stations |-> <<>>, railways |-> <<>>],
                      FetchAllOperators(operator_keys,
                                        [k \in 1..Len(OPERATORS) |-> "data"]).all_data) :
        operator_keys \in {<<>>, <<"JR_EAST">>, None}}

\* The railway records given to populate_database: two with one identifier
\* and different station orders, and one with another identifier.
RailwayRecord(id, stationOrder) ==
    [id |-> id, title |-> "Line", stationOrder |-> stationOrder, sameAs |-> id]

RailwayRecordLists ==
    {<<>>, <<RailwayRecord("R1", <<1, 2>>)>>,
     <<RailwayRecord("R1", <<1, 2>>), RailwayRecord("R1", <<2, 1>>)>>,
     <<RailwayRecord("R2", <<>>), RailwayRecord("R1", <<1, 2>>)>>}

\* The data given to populate_database, in the order of the dict: no
\* operator, one operator with any lists, or a second operator after it
\* whose records have identifiers the first operator's may have too.
OperatorData(operator_key, stations, railways) ==
    [key |-> operator_key, stations |-> stations, railways |-> railways]

PopulateData ==
    LET first == {OperatorData("JR_EAST", stations, railways) :
                     stations \in {<<>>} \cup StationRecordLists,
                     railways \in RailwayRecordLists}
        second == {OperatorData("TOKYO_METRO", <<>>, <<>>),
                   OperatorData("TOKYO_METRO",
                                <<StationRecord("S1", <<"m">>, FALSE)>>,
                                <<RailwayRecord("R1", <<2, 1>>)>>),
                   OperatorData("TOKYO_METRO",
                                <<StationRecord("S3", <<"k">>, TRUE)>>,
                                <<RailwayRecord("R3", <<1, 2>>)>>)}
    IN  {<<>>} \cup {<<d>> : d \in first}
               \cup {<<d1, d2>> : d1 \in first, d2 \in second}

\* The databases populate_database finds: a file without tables, one with
\* the stations and railways tables only, and one whose five tables each
\* hold a row of an earlier run, the stations and railways rows under an
\* identifier of the new records, under another one, and under none.
OldStationRows ==
    <<StationRowOf(StationRecord("S1", <<"o">>, FALSE)),
      StationRowOf(StationRecord("S9", <<"o">>, FALSE)),
      StationRowOf(StationRecord(NullId, <<"o">>, FALSE))>>

OldRailwayRows ==
    <<RailwayRowOf(RailwayRecord("R1", <<3, 2, 1>>)),
      RailwayRowOf(RailwayRecord("R9", <<3, 2, 1>>))>>

PopulateDatabases ==
    {<<>>,
     [stations |-> OldStationRows, railways |-> <<>>],
     [t \in Tables |->
         CASE t = "stations" -> OldStationRows
           [] t = "railways" -> OldRailwayRows
           [] OTHER -> <<[id |-> "T1"]>>]}

\* For the analyze command: the stations of one line, the first j of them
\* with one local title and the others with another, the last one with or
\* without an English title.
CliDatabases ==
    Databases({[i \in 1..NumCliStations |->
                   TitledRow(i, IF i <= j THEN <<"k">> ELSE <<"m">>,
                             IF i = NumCliStations THEN e ELSE <<"A", "b">>)] :
                  j \in 1..(NumCliStations - 1),
                  e \in {None, <<"b", "a">>}},
              {<<RailwayRow("R1", JsonDumps([i \in 1..NumCliStations |-> i]))>>})

\* The names given to the analyze command: one that is part of every
\* title, one local title, one English title in another case, and one
\* that is part of no title.
CliTerms == {<<>>, <<"k">>, <<"a", "B">>, <<"x">>}

\* What is typed at the selection prompt over the results: text that int()
\* rejects, or a number from 0 to one more than their count; nothing is
\* read when there is no prompt.
Choices(results) ==
    IF Len(results) <= 1 THEN {[numeric |-> FALSE, value |-> 0]}
    ELSE {[numeric |-> FALSE, value |-> 0]}
             \cup {[numeric |-> TRUE, value |-> v] : v \in 0..(Len(results) + 1)}

\* The operations that open a scoped session.
SessionOps ==
    {"build_network", "populate_database", "get_database_stats", "health_check"}

\* The max_time arguments: a negative one, the multiples of the per-stop
\* time up to MaxTimeSteps stops, and the default.
MaxTimes ==
    {-DEFAULT_AVG_TIME_PER_STOP}
        \cup {k * DEFAULT_AVG_TIME_PER_STOP : k \in 0..MaxTimeSteps}
        \cup {DEFAULT_MAX_COMMUTE_TIME}

TopNs == (1..MaxTopN) \cup {DEFAULT_TOP_N_RESULTS}

(***************************************************************************)
(* The state after construction, and the engine's operations.              *)
(***************************************************************************)
NoCall == [op |-> "none", a |-> NoStation, b |-> NoStation, top_n |-> 0, max_time |-> 0]
NoResult == [raised |-> "", distances |-> EmptyMap, candidates |-> <<>>]
NoResponse == [status |-> 0, detail |-> "", candidates |-> <<>>, ranked |-> FALSE]

InitOver(databases) ==
    /\ db \in databases
    /\ network_graph = NewEngine.network_graph
    /\ station_info = NewEngine.station_info
    /\ railway_info = NewEngine.railway_info
    /\ transfer_stations = NewEngine.transfer_stations
    /\ builds = NewEngine.builds
    /\ call = NoCall
    /\ result = NoResult
    /\ started = FALSE
    /\ response = NoResponse
    /\ manager = NewManager

\* The caller has not yet asked the engine for a result.
Idle == call.op \in {"none", "build_network"}
Searched == call.op = "_dijkstra_with_path"

\* A caller runs build_network (cmd_analyze and cmd_search do, on a new engine).
BuildNetworkCall ==
    /\ Idle
    /\ builds < MaxBuilds
    /\ \E list_order \in ListOrders(Engine, db) :
           SetEngine(BuildNetwork(Engine, db, list_order))
    /\ call' = [NoCall EXCEPT !.op = "build_network"]
    /\ result' = NoResult
    /\ UNCHANGED <<manager, db, started, response>>

\* find_optimal_stations calls _dijkstra_with_path once the graph is built.
DijkstraCall ==
    /\ Idle
    /\ builds >= 1
    /\ \E start_station \in Stations, max_time \in MaxTimes :
        /\ call' = [NoCall EXCEPT !.op = "_dijkstra_with_path",
                                  !.a = start_station, !.max_time = max_time]
        /\ result' = [NoResult EXCEPT !.distances =
                          DijkstraWithPath(network_graph, start_station, max_time)]
    /\ UNCHANGED <<manager, db, network_graph, station_info, railway_info,
                   transfer_stations, builds, started, response>>

\* _dijkstra_with_path step by step: the statements before the loop, one
\* iteration of "while pq" (the pop and, for a station not yet visited, the
\* loop over its connections), and the return.
DijkstraStart ==
    /\ Idle
    /\ builds >= 1
    /\ \E start_station \in RankStationIds, max_time \in MaxTimes :
        /\ call' = [NoCall EXCEPT !.op = "_dijkstra_with_path",
                                  !.a = start_station, !.max_time = max_time]
        /\ result' = [raised |-> "", distances |-> EmptyMap, candidates |-> <<>>,
                      returned |-> FALSE, st |-> DijkstraInit(start_station)]
    /\ UNCHANGED <<manager, db, network_graph, station_info, railway_info,
                   transfer_stations, builds, started, response>>

DijkstraIterate ==
    /\ Searched
    /\ ~result.returned
    /\ result.st.pq # {}
    /\ result' = [result EXCEPT
                      !.st = DijkstraStep(network_graph, @, call.max_time)]
    /\ UNCHANGED <<manager, db, network_graph, station_info, railway_info,
                   transfer_stations, builds, call, started, response>>

DijkstraReturn ==
    /\ Searched
    /\ ~result.returned
    /\ result.st.pq = {}
    /\ result' = [result EXCEPT !.returned = TRUE,
                                !.distances = result.st.distances]
    /\ UNCHANGED <<manager, db, network_graph, station_info, railway_info,
                   transfer_stations, builds, call, started, response>>

\* A caller (cmd_search, cmd_analyze, search_stations) runs search_station
\* on the built engine.
SearchStationCall ==
    /\ Idle
    /\ builds >= 1
    /\ \E search_term \in SearchTerms :
        /\ call' = [op |-> "search_station", a |-> NoStation, b |-> NoStation,
                    top_n |-> 0, max_time |-> 0, term |-> search_term]
        /\ result' = SearchStation(station_info, search_term)
    /\ UNCHANGED <<manager, db, network_graph, station_info, railway_info,
                   transfer_stations, builds, started, response>>

\* find_optimal_stations on a built engine e: the two searches, then the
\* ranking, for every order the loop may visit the common stations in.
Ranked(e, work_station_a, work_station_b, top_n, max_time) ==
    LET routes_from_a == DijkstraWithPath(e.network_graph, work_station_a, max_time)
        routes_from_b == DijkstraWithPath(e.network_graph, work_station_b, max_time)
        common_stations == CommonStations(routes_from_a, routes_from_b,
                                          work_station_a, work_station_b)
    IN  {RankStations(e.station_info, routes_from_a, routes_from_b, top_n,
                      max_time, iteration) : iteration \in ListingsOf(common_stations)}

\* find_optimal_stations, its lazy build included.
FindOptimalStations(work_station_a, work_station_b, top_n, max_time) ==
    \E list_order \in ListOrders(Engine, db) :
        LET e == BuildIfNoGraph(Engine, db, list_order)
        IN  /\ e.builds <= MaxBuilds
            /\ SetEngine(e)
            /\ result' \in Ranked(e, work_station_a, work_station_b, top_n, max_time)
            /\ call' = [op |-> "find_optimal_stations", a |-> work_station_a,
                        b |-> work_station_b, top_n |-> top_n, max_time |-> max_time]

\* A caller (cmd_analyze, after its build_network) runs the ranking once.
FindOptimalStationsOver(stations) ==
    /\ Idle
    /\ \E work_station_a \in stations, work_station_b \in stations,
          top_n \in TopNs, max_time \in MaxTimes :
           FindOptimalStations(work_station_a, work_station_b, top_n, max_time)
    /\ UNCHANGED <<manager, db, started, response>>

FindOptimalStationsCall == FindOptimalStationsOver(RankStationIds)

FindOptimalStationsEndToEnd == FindOptimalStationsOver(DOMAIN EndToEndDatabase.stations)

(***************************************************************************)
(* A scoped session, "with TrainDatabaseManager(path) as db", step by      *)
(* step, and close() called on the manager outside of it.                  *)
(***************************************************************************)

\* __init__ and __enter__: a new manager connects; when connect raises the
\* body and __exit__ do not run.
SessionEnter ==
    /\ manager.pc \in {"new", "failed", "exited"}
    /\ \E op \in SessionOps, opens \in BOOLEAN :
           manager' = [Connect(NewManager, opens) EXCEPT
                          !.op = op, !.pc = IF opens THEN "body" ELSE "failed"]
    /\ call' = NoCall
    /\ result' = NoResult
    /\ UNCHANGED <<db, network_graph, station_info, railway_info,
                   transfer_stations, builds, started, response>>

\* populate_database: create_schema and clear_all_data open the body.
SessionClearAllData ==
    /\ manager.pc = "body"
    /\ manager.op = "populate_database"
    /\ ~manager.cleared
    /\ db' = ClearAllData(db)
    /\ manager' = [manager EXCEPT !.cleared = TRUE]
    /\ call' = [NoCall EXCEPT !.op = "clear_all_data"]
    /\ result' = NoResult
    /\ UNCHANGED <<network_graph, station_info, railway_info,
                   transfer_stations, builds, started, response>>

\* populate_database: insert_stations for one operator's records.
InsertStationsCall ==
    /\ manager.pc = "body"
    /\ manager.op = "populate_database"
    /\ manager.cleared
    /\ manager.inserts < MaxInserts
    /\ \E stations \in StationRecordLists :
        /\ db' = [db EXCEPT !.stations = InsertStations(@, stations)]
        /\ call' = [op |-> "insert_stations", a |-> NoStation, b |-> NoStation,
                    top_n |-> 0, max_time |-> 0, stations |-> stations]
        /\ result' = [raised |-> "", count |-> Len(stations),
                      before |-> db.stations]
    /\ manager' = [manager EXCEPT !.inserts = @ + 1]
    /\ UNCHANGED <<network_graph, station_info, railway_info,
                   transfer_stations, builds, started, response>>

\* The body comes to its end, or a statement of it raises (a query on a
\* table that does not exist, an insert that fails).
SessionBodyEnds ==
    /\ manager.pc = "body"
    /\ \E raises \in BOOLEAN :
           manager' = [manager EXCEPT !.pc = "leaving", !.raised = raises]
    /\ UNCHANGED <<db, network_graph, station_info, railway_info,
                   transfer_stations, builds, call, result, started, response>>

\* __exit__
SessionExit ==
    /\ manager.pc = "leaving"
    /\ manager' = [ManagerExit(manager) EXCEPT !.pc = "exited"]
    /\ UNCHANGED <<db, network_graph, station_info, railway_info,
                   transfer_stations, builds, call, result, started, response>>

\* close() called on a manager that has not connected, whose connect raised,
\* or whose session has ended.
CloseCall ==
    /\ manager.pc \in {"new", "failed", "exited"}
    /\ manager.closes < MaxCloses
    /\ manager' = [Close(manager) EXCEPT !.closes = @ + 1]
    /\ call' = [NoCall EXCEPT !.op = "close"]
    /\ result' = NoResult
    /\ UNCHANGED <<db, network_graph, station_info, railway_info,
                   transfer_stations, builds, started, response>>

(***************************************************************************)
(* The DataFetcher's operations and the fetch command, each as one step of  *)
(* a process that runs one of them.                                        *)
(***************************************************************************)
FetchCall(op, operator_keys, fetch) ==
    [op |-> op, a |-> NoStation, b |-> NoStation, top_n |-> 0, max_time |-> 0,
     operator_keys |-> operator_keys, fetch |-> fetch]

FetchOperatorDataCall ==
    /\ call.op = "none"
    /\ \E operator_key \in Range(OPERATORS) \cup {"METRO"}, fetch \in Fetches :
        /\ call' = FetchCall("fetch_operator_data", <<operator_key>>, <<fetch>>)
        /\ result' = FetchOperatorData(operator_key, fetch)
    /\ UNCHANGED <<manager, db, network_graph, station_info, railway_info,
                   transfer_stations, builds, started, response>>

FetchAllOperatorsCall ==
    /\ call.op = "none"
    /\ \E operator_keys \in OperatorKeyLists :
       \E fetch \in FetchesFor(operator_keys) :
        /\ call' = FetchCall("fetch_all_operators", operator_keys, fetch)
        /\ result' = FetchAllOperators(operator_keys, fetch)
    /\ UNCHANGED <<manager, db, network_graph, station_info, railway_info,
                   transfer_stations, builds, started, response>>

FetchAndPopulateCall ==
    /\ call.op = "none"
    /\ \E operator_keys \in OperatorKeyLists :
       \E fetch \in FetchesFor(operator_keys) :
       LET stats == FetchAndPopulate(db, operator_keys, fetch)
       IN  /\ call' = FetchCall("fetch_and_populate", operator_keys, fetch)
           /\ result' = [raised |-> stats.raised, fetches |-> stats.fetches]
           /\ db' = stats.db
    /\ UNCHANGED <<manager, network_graph, station_info, railway_info,
                   transfer_stations, builds, started, response>>

CmdFetchCall ==
    /\ call.op = "none"
    /\ \E operators \in OperatorTexts :
       \E fetch \in FetchesFor(operators) :
       LET done == CmdFetch(db, operators, fetch)
       IN  /\ call' = FetchCall("cmd_fetch", operators, fetch)
           /\ result' = [raised |-> done.raised, fetches |-> done.fetches,
                         exit |-> done.exit]
           /\ db' = done.db
    /\ UNCHANGED <<manager, network_graph, station_info, railway_info,
                   transfer_stations, builds, started, response>>

\* populate_database on the data of an earlier fetch; before keeps what the
\* database held.
PopulateDatabaseCall ==
    /\ call.op = "none"
    /\ \E data \in PopulateData :
        /\ call' = [NoCall EXCEPT !.op = "populate_database"]
        /\ result' = [raised |-> "", data |-> data, before |-> db]
        /\ db' = PopulateDatabase(db, data)
    /\ UNCHANGED <<manager, network_graph, station_info, railway_info,
                   transfer_stations, builds, started, response>>

(***************************************************************************)
(* The analyze command: one process on a new engine, in two steps.         *)
(***************************************************************************)
\* build_network, the two searches and the selections.
CmdAnalyzeResolve ==
    /\ call.op = "none"
    /\ builds = 0
    /\ \E station_a \in CliTerms, station_b \in CliTerms,
          top \in {1, DEFAULT_TOP_N_RESULTS},
          max_time \in {0, DEFAULT_MAX_COMMUTE_TIME},
          list_order \in ListOrders(Engine, db) :
        LET e == BuildNetwork(Engine, db, list_order)
            results_a == SearchStation(e.station_info, station_a)
            results_b == SearchStation(e.station_info, station_b)
        IN  \E choice_a \in Choices(results_a.results),
               choice_b \in Choices(results_b.results) :
            LET resolved == ResolveStations(results_a, results_b, choice_a, choice_b)
            IN  /\ SetEngine(e)
                /\ call' = [op |-> "cmd_analyze", a |-> NoStation, b |-> NoStation,
                            top_n |-> top, max_time |-> max_time,
                            station_a |-> station_a, station_b |-> station_b,
                            choice_a |-> choice_a, choice_b |-> choice_b]
                /\ result' = [pc |-> IF resolved.ok THEN "ranking"
                                      ELSE IF resolved.raised # "" THEN "raised"
                                      ELSE "returned",
                               exit |-> 1, raised |-> resolved.raised,
                               caught |-> "",
                               prompts |-> resolved.prompts, ranked |-> FALSE,
                               a |-> resolved.a, b |-> resolved.b,
                               candidates |-> <<>>]
    /\ UNCHANGED <<manager, db, started, response>>

\* find_optimal_stations on the selected stations, and the exit code.
CmdAnalyzeRank ==
    /\ call.op = "cmd_analyze"
    /\ result.pc = "ranking"
    /\ \E list_order \in ListOrders(Engine, db) :
        LET e == BuildIfNoGraph(Engine, db, list_order)
        IN  /\ SetEngine(e)
            /\ \E ranking \in Ranked(e, result.a, result.b,
                                        call.top_n, call.max_time) :
                   result' = [result EXCEPT !.pc = "returned",
                                            !.exit = ExitCode(ranking),
                                            !.caught = ranking.raised,
                                            !.ranked = TRUE,
                                            !.candidates = ranking.candidates]
    /\ UNCHANGED <<manager, db, call, started, response>>

(***************************************************************************)
(* The HTTP service (src/app.py): one engine shared by every request.      *)
(***************************************************************************)
\* ranked records whether the handler has called find_optimal_stations.
Respond(status, detail, candidates) ==
    [status |-> status, detail |-> detail, candidates |-> candidates,
     ranked |-> FALSE]

\* Variants of the two validations of analyze_commute that never reject.
SameStationNever(station_a, station_b) == FALSE

StationMissingNever(info, station) == FALSE

\* A success response for whatever the ranking returned.
AnalysisResponseAlwaysOk(ranking, e) ==
    [status |-> 200, detail |-> "candidates",
     candidates |-> [i \in DOMAIN ranking.candidates |->
                        ranking.candidates[i].station_id],
     ranked |-> TRUE]

\* "if request.station_a == request.station_b"
SameStation(station_a, station_b) == station_a = station_b

\* "if request.station_x not in optimizer.station_info"
StationMissing(info, station) == station \notin DOMAIN info

\* A NULL of the REAL columns latitude and longitude, apart from every
\* number a coordinate can be.
NullCoordinate == 999

\* A field declared float accepts a number and rejects None.
IsFloat(v) == v # NullCoordinate

\* dict.get(key, default) on station_info.get(station, {}): the default is
\* for an absent key, a key that holds None yields None.
InfoGet(info, station, key, default) ==
    IF station \in DOMAIN info THEN info[station][key] ELSE default

\* format_route_segment: raised tells that the constructor of the response
\* model RouteSegment rejected a coordinate list.
FormatRouteSegment(segment, e) ==
    LET from_coordinates == <<InfoGet(e.station_info, segment.from_station, "latitude", 0),
                              InfoGet(e.station_info, segment.from_station, "longitude", 0)>>
        to_coordinates == <<InfoGet(e.station_info, segment.to_station, "latitude", 0),
                            InfoGet(e.station_info, segment.to_station, "longitude", 0)>>
    IN  [from_station |-> segment.from_station,
         from_coordinates |-> from_coordinates,
         to_station |-> segment.to_station,
         to_coordinates |-> to_coordinates,
         railway |-> segment.railway,
         travel_time |-> segment.travel_time,
         num_stops |-> segment.num_stops,
         is_transfer |-> segment.railway = Transfer,
         raised |-> \E i \in 1..2 : ~IsFloat(from_coordinates[i])
                                      \/ ~IsFloat(to_coordinates[i])]

\* format_route
FormatRoute(route, e) ==
    LET segments == [i \in DOMAIN route.segments |->
                        FormatRouteSegment(route.segments[i], e)]
    IN  [total_time |-> route.total_time,
         total_stops |-> route.total_stops,
         segments |-> segments,
         raised |-> \E i \in DOMAIN segments : segments[i].raised]

\* format_candidate: the routes are formatted before the constructor of
\* CandidateStation validates latitude, longitude and balance_score.
FormatCandidate(candidate, e) ==
    LET latitude == InfoGet(e.station_info, candidate.station_id, "latitude", 0)
        longitude == InfoGet(e.station_info, candidate.station_id, "longitude", 0)
        route_from_a == FormatRoute(candidate.route_from_a, e)
        route_from_b == FormatRoute(candidate.route_from_b, e)
    IN  [station_id |-> candidate.station_id,
         total_time |-> candidate.total_time,
         time_difference |-> candidate.time_difference,
         balance_score |-> candidate.balance_score,
         latitude |-> latitude,
         longitude |-> longitude,
         route_from_a |-> route_from_a,
         route_from_b |-> route_from_b,
         raised |-> \/ route_from_a.raised
                    \/ route_from_b.raised
                    \/ ~IsFloat(latitude)
                    \/ ~IsFloat(longitude)
                    \/ candidate.balance_score.num < 0
                    \/ candidate.balance_score.num > candidate.balance_score.den]

\* The response of analyze_commute once find_optimal_stations has returned
\* or raised.  The work-station summaries go into a plain dict, which takes
\* None; the candidates are formatted outside the try block, so an exception
\* of a response model's constructor is answered by the framework.
AnalysisResponse(ranking, e) ==
    LET formatted_candidates == [i \in DOMAIN ranking.candidates |->
                                    FormatCandidate(ranking.candidates[i], e)]
        r == IF ranking.raised # ""
             THEN Respond(500, "Analysis failed", <<>>)
             ELSE IF ranking.candidates = <<>>
             THEN Respond(404, "No common reachable stations found. Try increasing max_time.", <<>>)
             ELSE IF \E i \in DOMAIN formatted_candidates :
                        formatted_candidates[i].raised
             THEN Respond(500, "Internal Server Error", <<>>)
             ELSE Respond(200, "candidates",
                          [i \in DOMAIN formatted_candidates |->
                              formatted_candidates[i].station_id])
    IN  [r EXCEPT !.ranked = TRUE]

\* startup_event
StartupEvent ==
    /\ ~started
    /\ \E list_order \in ListOrders(Engine, db) :
           SetEngine(BuildNetwork(Engine, db, list_order))
    /\ started' = TRUE
    /\ call' = [NoCall EXCEPT !.op = "startup_event"]
    /\ UNCHANGED <<manager, db, result, response>>

\* The handlers are coroutines without an await: each runs to its end before
\* the event loop takes up the next request.
Serving == started /\ call.op \in {"none", "startup_event"}

\* The response is sent and the handler's locals are dropped.
ResponseSent ==
    /\ started
    /\ call.op \notin {"none", "startup_event"}
    /\ call' = NoCall
    /\ result' = NoResult
    /\ response' = NoResponse
    /\ UNCHANGED <<manager, db, network_graph, station_info, railway_info,
                   transfer_stations, builds, started>>

\* GET /api/stations/search: the lazy build; the listing itself reads only.
SearchStations ==
    /\ Serving
    /\ \E list_order \in ListOrders(Engine, db) :
           LET e == BuildIfEmpty(station_info, Engine, db, list_order)
           IN  /\ e.builds <= MaxServiceBuilds
               /\ SetEngine(e)
    /\ call' = [NoCall EXCEPT !.op = "search_stations"]
    /\ response' = Respond(200, "stations", <<>>)
    /\ UNCHANGED <<manager, db, result, started>>

\* GET /api/stations/{station_id}
GetStation ==
    /\ Serving
    /\ \E station_id \in Stations, list_order \in ListOrders(Engine, db) :
           LET e == BuildIfEmpty(station_info, Engine, db, list_order)
           IN  /\ e.builds <= MaxServiceBuilds
               /\ SetEngine(e)
               /\ call' = [NoCall EXCEPT !.op = "get_station", !.a = station_id]
               /\ response' = IF station_id \notin DOMAIN e.station_info
                              THEN Respond(404, "Station not found", <<>>)
                              ELSE Respond(200, "station", <<>>)
    /\ UNCHANGED <<manager, db, result, started>>

\* GET /api/railways
ListRailways ==
    /\ Serving
    /\ \E list_order \in ListOrders(Engine, db) :
           LET e == BuildIfEmpty(railway_info, Engine, db, list_order)
           IN  /\ e.builds <= MaxServiceBuilds
               /\ SetEngine(e)
    /\ call' = [NoCall EXCEPT !.op = "list_railways"]
    /\ response' = Respond(200, "railways", <<>>)
    /\ UNCHANGED <<manager, db, result, started>>

\* The request bodies the schema admits: top_n in 1..50, max_time in 10..300
\* minutes.
RequestTopNs == {1, DEFAULT_TOP_N_RESULTS}
RequestMaxTimes == {100, DEFAULT_MAX_COMMUTE_TIME}

\* POST /api/analyze
AnalyzeCommute ==
    /\ Serving
    /\ \E station_a \in Stations, station_b \in Stations,
          top_n \in RequestTopNs, max_time \in RequestMaxTimes :
        /\ call' = [op |-> "analyze_commute", a |-> station_a, b |-> station_b,
                    top_n |-> top_n, max_time |-> max_time]
        /\ IF SameStation(station_a, station_b)
           THEN /\ response' = Respond(400, "Work stations must be different", <<>>)
                /\ UNCHANGED <<network_graph, station_info, railway_info,
                               transfer_stations, builds, result>>
           ELSE \E list_order \in ListOrders(Engine, db) :
                LET e1 == BuildIfEmpty(network_graph, Engine, db, list_order)
                IN  IF StationMissing(e1.station_info, station_a)
                    THEN /\ e1.builds <= MaxServiceBuilds
                         /\ SetEngine(e1)
                         /\ response' = Respond(404, "Station A not found", <<>>)
                         /\ UNCHANGED result
                    ELSE IF StationMissing(e1.station_info, station_b)
                    THEN /\ e1.builds <= MaxServiceBuilds
                         /\ SetEngine(e1)
                         /\ response' = Respond(404, "Station B not found", <<>>)
                         /\ UNCHANGED result
                    ELSE \E list_order2 \in ListOrders(e1, db) :
                         LET e2 == BuildIfNoGraph(e1, db, list_order2)
                         IN  /\ e2.builds <= MaxServiceBuilds
                             /\ SetEngine(e2)
                             /\ result' \in Ranked(e2, station_a, station_b,
                                                   top_n, max_time)
                             /\ response' = AnalysisResponse(result', e2)
    /\ UNCHANGED <<manager, db, started>>

\* Another process (the CLI's fetch command) replaces the rows of the database.
DatabaseChange ==
    /\ db' \in ServiceDatabases \ {db}
    /\ UNCHANGED <<manager, network_graph, station_info, railway_info, transfer_stations,
                   builds, call, result, started, response>>

Init == InitOver(ServiceDatabases)
Next ==
    \/ StartupEvent
    \/ SearchStations
    \/ GetStation
    \/ ListRailways
    \/ AnalyzeCommute
    \/ ResponseSent
    \/ DatabaseChange
Spec == Init /\ [][Next]_vars

\* For the formatting of the candidates: every station on the line
\* 1, 2, .., n with a title of its own and with both coordinates, without
\* its latitude, or without its longitude.
CoordinateChoices == {<<0, 0>>, <<NullCoordinate, 0>>, <<0, NullCoordinate>>}

CoordinateDatabases ==
    Databases({[i \in Stations |->
                   [StationRow(i, TitleName(i)) EXCEPT !.latitude = c[i][1],
                                                       !.longitude = c[i][2]]] :
                  c \in [Stations -> CoordinateChoices]},
              {<<RailwayRow("R1", JsonDumps([i \in Stations |-> i]))>>})

InitAnalyze == InitOver(CoordinateDatabases)
NextAnalyze == StartupEvent \/ AnalyzeCommute \/ ResponseSent
SpecAnalyze == InitAnalyze /\ [][NextAnalyze]_vars

InitBuild == InitOver(BuildDatabases)
NextBuild == BuildNetworkCall
SpecBuild == InitBuild /\ [][NextBuild]_vars

InitDijkstra == InitOver(SearchDatabases)
NextDijkstra == BuildNetworkCall \/ DijkstraCall
SpecDijkstra == InitDijkstra /\ [][NextDijkstra]_vars

InitRoutes == InitOver(RankDatabases)
NextRoutes == BuildNetworkCall \/ DijkstraStart \/ DijkstraIterate \/ DijkstraReturn
SpecRoutes == InitRoutes /\ [][NextRoutes]_vars

InitRank == InitOver(RankDatabases)
NextRank == FindOptimalStationsCall
SpecRank == InitRank /\ [][NextRank]_vars

InitShortcut == InitOver(ShortcutDatabases)
SpecShortcut == InitShortcut /\ [][NextRank]_vars

InitMalformed == InitOver(MalformedDatabases)
SpecMalformed == InitMalformed /\ [][NextBuild]_vars

InitSearch == InitOver(TitledDatabases)
NextSearch == BuildNetworkCall \/ SearchStationCall
SpecSearch == InitSearch /\ [][NextSearch]_vars

InitPersist == InitOver({[stations |-> <<>>, railways |-> <<>>]})
NextPersist ==
    \/ SessionEnter
    \/ SessionClearAllData
    \/ InsertStationsCall
    \/ SessionBodyEnds
    \/ SessionExit
    \/ CloseCall
SpecPersist == InitPersist /\ [][NextPersist]_vars

InitFetch == InitOver(FetchDatabases)
NextFetch ==
    \/ FetchOperatorDataCall
    \/ FetchAllOperatorsCall
    \/ FetchAndPopulateCall
    \/ CmdFetchCall
SpecFetch == InitFetch /\ [][NextFetch]_vars

InitPopulate == InitOver(PopulateDatabases)
NextPopulate == PopulateDatabaseCall
SpecPopulate == InitPopulate /\ [][NextPopulate]_vars

InitCli == InitOver(CliDatabases)
NextCli == CmdAnalyzeResolve \/ CmdAnalyzeRank
SpecCli == InitCli /\ [][NextCli]_vars

InitEndToEnd == InitOver({EndToEndDatabase})
NextEndToEnd == BuildNetworkCall \/ FindOptimalStationsEndToEnd
SpecEndToEnd == InitEndToEnd /\ [][NextEndToEnd]_vars

(***************************************************************************)
(* Properties.                                                             *)
(***************************************************************************)
HasEdge(graph, from_station, e) ==
    /\ from_station \in DOMAIN graph
    /\ \E k \in DOMAIN graph[from_station] : graph[from_station][k] = e

EdgeBetween(graph, x, y) ==
    \/ x \in DOMAIN graph /\ \E k \in DOMAIN graph[x] : graph[x][k].to_station = y
    \/ y \in DOMAIN graph /\ \E k \in DOMAIN graph[y] : graph[y][k].to_station = x

RankedCall == call.op = "find_optimal_stations"

TimesWithinBound ==
    \A s \in DOMAIN result.distances : result.distances[s].time <= call.max_time

\* C1, as claimed: for every max_time T, every entry of the mapping returned
\* by _dijkstra_with_path(start, T) has time <= T, the start's own included.
C1_EveryTimeWithinAnyBound == Searched => TimesWithinBound

\* C1, amended: for every max_time T >= 0, every entry of the mapping
\* returned by _dijkstra_with_path(start, T) has time <= T, the start's own
\* included.
C1_EveryTimeWithinBound == (Searched /\ call.max_time >= 0) => TimesWithinBound

\* A search whose bound is reached exactly by one station and cuts off another.
C1_Witness ==
    /\ Searched
    /\ call.max_time >= 0
    /\ \E s \in DOMAIN result.distances :
           s # call.a /\ result.distances[s].time = call.max_time
    /\ DOMAIN DijkstraWithPath(network_graph, call.a, DEFAULT_MAX_COMMUTE_TIME)
           # DOMAIN result.distances

\* C2: for bounds T1 <= T2, the stations returned by
\* _dijkstra_with_path(start, T1) are among those returned by
\* _dijkstra_with_path(start, T2).
C2_ReachableSetGrowsWithBound ==
    Searched =>
        \A t \in MaxTimes :
            t <= call.max_time =>
                DOMAIN DijkstraWithPath(network_graph, call.a, t)
                    \subseteq DOMAIN result.distances

\* A search that returns more stations than the same search under a smaller
\* bound, which itself returns more than the start.
C2_Witness ==
    /\ Searched
    /\ \E t \in MaxTimes :
        /\ t < call.max_time
        /\ Cardinality(DOMAIN DijkstraWithPath(network_graph, call.a, t)) >= 2
        /\ DOMAIN DijkstraWithPath(network_graph, call.a, t) # DOMAIN result.distances

\* C3: neither work station is the station_id of a candidate returned by
\* find_optimal_stations, also when each is reachable from the other.
C3_OriginsExcluded ==
    RankedCall =>
        \A i \in DOMAIN result.candidates :
            result.candidates[i].station_id \notin {call.a, call.b}

\* A ranking with candidates whose two distinct work stations reach each other.
C3_Witness ==
    /\ RankedCall
    /\ call.a # call.b
    /\ result.candidates # <<>>
    /\ call.b \in DOMAIN DijkstraWithPath(network_graph, call.a, call.max_time)
    /\ call.a \in DOMAIN DijkstraWithPath(network_graph, call.b, call.max_time)

\* C4: the list returned by find_optimal_stations is sorted: for adjacent
\* a, b either a.total_time < b.total_time, or the total times are equal and
\* a.time_difference <= b.time_difference.
C4_Sorted ==
    RankedCall =>
        \A i \in 1..(Len(result.candidates) - 1) :
            LET x == result.candidates[i]
                y == result.candidates[i + 1]
            IN  \/ x.total_time < y.total_time
                \/ x.total_time = y.total_time
                   /\ x.time_difference <= y.time_difference

\* A ranking of two work stations that returns candidates of different total
\* times, the larger station identifier first.
C4_Witness ==
    /\ RankedCall
    /\ call.a # call.b
    /\ Len(result.candidates) >= 2
    /\ result.candidates[1].total_time < result.candidates[2].total_time
    /\ result.candidates[1].station_id > result.candidates[2].station_id

\* C5: for max_time > 0 every candidate has time_difference <= max_time and
\* a balance_score in [0, 1].
C5_BalanceScoreInRange ==
    (RankedCall /\ call.max_time > 0) =>
        \A i \in DOMAIN result.candidates :
            LET c == result.candidates[i]
            IN  /\ c.time_difference <= call.max_time
                /\ c.balance_score.den > 0
                /\ 0 <= c.balance_score.num
                /\ c.balance_score.num <= c.balance_score.den

\* A candidate whose two legs differ as much as a bound below the default
\* allows: one leg takes the whole bound, the other a single stop.
C5_Witness ==
    /\ RankedCall
    /\ call.max_time > 0
    /\ call.max_time < DEFAULT_MAX_COMMUTE_TIME
    /\ \E i \in DOMAIN result.candidates :
        /\ result.candidates[i].time_difference > 0
        /\ result.candidates[i].time_difference
               = call.max_time - DEFAULT_AVG_TIME_PER_STOP

EndToEndCall ==
    /\ RankedCall
    /\ db = EndToEndDatabase
    /\ call.a = 1
    /\ call.b = 5
    /\ call.max_time = DEFAULT_MAX_COMMUTE_TIME

\* C6, as claimed: on the railways [S1, S2, S3] and [S4, S2, S5],
\* find_optimal_stations(S1, S5, max_time=120) lists S2 with a total_time of
\* 7.5 minutes.
C6_SharedStationTotalAsClaimed ==
    EndToEndCall =>
        \E i \in DOMAIN result.candidates :
            /\ result.candidates[i].station_id = 2
            /\ result.candidates[i].total_time = 75

\* C6, amended: on the railways [S1, S2, S3] and [S4, S2, S5],
\* find_optimal_stations(S1, S5, max_time=120) lists S2 with a total_time of
\* 2.5 + 2.5 = 5.0 minutes.
C6_SharedStationTotal ==
    EndToEndCall =>
        \E i \in DOMAIN result.candidates :
            /\ result.candidates[i].station_id = 2
            /\ result.candidates[i].total_time = 2 * DEFAULT_AVG_TIME_PER_STOP

\* The ranking of S1 and S5 has run and returned candidates.
C6_Witness == EndToEndCall /\ result.candidates # <<>>

\* The railways build_network loads with a station order that parses.
LoadedOrders ==
    {[railway |-> db.railways[k].same_as,
      station_order |-> JsonLoads(db.railways[k].station_order).value] :
        k \in {j \in DOMAIN db.railways :
                  /\ db.railways[j].same_as # NullId
                  /\ ~db.railways[j].order_is_null
                  /\ ~JsonLoads(db.railways[j].station_order).raised}}

Consecutive(x, y) ==
    \E r \in LoadedOrders : \E i \in 1..(Len(r.station_order) - 1) :
        {r.station_order[i], r.station_order[i + 1]} = {x, y}

\* A station row of the database gives both stations the same title.
ShareTitle(x, y) ==
    \E i, j \in DOMAIN db.stations :
        /\ db.stations[i].same_as = x
        /\ db.stations[j].same_as = y
        /\ db.stations[i].title = db.stations[j].title

\* C7: after build_network on an unbuilt engine, for every railway with a
\* station order [.., X, Y, ..] the graph holds the edges X->Y and Y->X with
\* travel time 2.5, stop count 1 and that railway's id; two stations that
\* are consecutive in no railway's order and share no title have no edge
\* between them.  (A railway is a row build_network loads: its same_as is
\* present; X and Y are entries that name a station.)
C7_RailwayEdges ==
    builds = 1 =>
        /\ \A r \in LoadedOrders : \A i \in 1..(Len(r.station_order) - 1) :
               LET x == r.station_order[i]
                   y == r.station_order[i + 1]
               IN  (x # NoStation /\ y # NoStation) =>
                       /\ HasEdge(network_graph, x,
                              Edge(y, DEFAULT_AVG_TIME_PER_STOP, r.railway, 1))
                       /\ HasEdge(network_graph, y,
                              Edge(x, DEFAULT_AVG_TIME_PER_STOP, r.railway, 1))
        /\ \A x, y \in Stations :
               (~Consecutive(x, y) /\ ~ShareTitle(x, y)) =>
                   ~EdgeBetween(network_graph, x, y)

\* A build over a railway whose order names three stations, the first and
\* the last of them with different titles and no edge between them.
C7_Witness ==
    /\ builds = 1
    /\ \E r \in LoadedOrders :
        /\ Len(r.station_order) = 3
        /\ \A i \in 1..3 : r.station_order[i] # NoStation
        /\ ~ShareTitle(r.station_order[1], r.station_order[3])
        /\ ~EdgeBetween(network_graph, r.station_order[1], r.station_order[3])
        /\ Len(network_graph[r.station_order[2]]) >= 2

\* C8: after build_network, any two loaded stations with different
\* identifiers and the same display title are joined by a "Transfer" edge in
\* both directions (travel time 5.0, stop count 0), whether or not either is
\* in a railway's station order; no "Transfer" edge joins stations whose
\* titles differ.
C8_TransferEdgesBothWays ==
    builds >= 1 =>
        /\ \A x, y \in DOMAIN station_info :
               (x # y /\ station_info[x].title = station_info[y].title) =>
                   /\ HasEdge(network_graph, x,
                          Edge(y, DEFAULT_TRANSFER_TIME, Transfer, 0))
                   /\ HasEdge(network_graph, y,
                          Edge(x, DEFAULT_TRANSFER_TIME, Transfer, 0))
        /\ \A x \in DOMAIN network_graph : \A k \in DOMAIN network_graph[x] :
               network_graph[x][k].railway = Transfer =>
                   ShareTitle(x, network_graph[x][k].to_station)

\* C9: once the startup build has completed, no request invokes
\* build_network again or changes network_graph, station_info or
\* railway_info, whatever rows the database holds.
C9_BuiltOnceThenOnlyRead ==
    [][started =>
          /\ builds' = builds
          /\ network_graph' = network_graph
          /\ station_info' = station_info
          /\ railway_info' = railway_info]_vars

\* C10: a second build_network on the same engine over an unchanged database
\* leaves network_graph, station_info and railway_info as the first left them.
C10_BuildIdempotent ==
    [][(builds >= 1 /\ builds' = builds + 1 /\ db' = db) =>
          /\ network_graph' = network_graph
          /\ station_info' = station_info
          /\ railway_info' = railway_info]_vars

\* A step in which the service handles POST /api/analyze.
Analyzes == Serving /\ call'.op = "analyze_commute"

EngineUnchanged ==
    /\ builds' = builds
    /\ network_graph' = network_graph
    /\ station_info' = station_info
    /\ railway_info' = railway_info
    /\ transfer_stations' = transfer_stations

\* C11: POST /api/analyze with station_a = station_b returns HTTP 400,
\* whether or not the identifier is in the loaded station map and whether or
\* not the graph is built, and does so before any build or ranking.
C11_SameStationRejectedFirst ==
    [][(Analyzes /\ call'.a = call'.b) =>
          /\ response' = Respond(400, "Work stations must be different", <<>>)
          /\ EngineUnchanged
          /\ result' = result]_vars

\* The request is rejected while the graph is empty, the station unknown and
\* the database holds rows a build would load.
C11_Witness ==
    /\ call.op = "analyze_commute"
    /\ call.a = call.b
    /\ response.status = 400
    /\ network_graph = EmptyMap
    /\ call.a \notin DOMAIN station_info
    /\ SelectStations(db) # <<>>
    /\ SelectRailways(db) # <<>>

\* C12: POST /api/analyze with station_a # station_b: if station_a is not in
\* the loaded station map the response is HTTP 404 naming "Station A", also
\* when station_b is missing too; if station_a is there and station_b is
\* not, it is HTTP 404 naming "Station B"; in both cases the ranking is not
\* run.
C12_MissingStationNamed ==
    [][(Analyzes /\ call'.a # call'.b) =>
          /\ call'.a \notin DOMAIN station_info' =>
                 /\ response' = Respond(404, "Station A not found", <<>>)
                 /\ result' = result
          /\ (call'.a \in DOMAIN station_info'
              /\ call'.b \notin DOMAIN station_info') =>
                 /\ response' = Respond(404, "Station B not found", <<>>)
                 /\ result' = result]_vars

\* Both stations are missing from the map the lazy build has just loaded and
\* the response names station A.
C12_Witness ==
    /\ call.op = "analyze_commute"
    /\ call.a # call.b
    /\ builds >= 2
    /\ network_graph # EmptyMap
    /\ call.a \notin DOMAIN station_info
    /\ call.b \notin DOMAIN station_info
    /\ response.detail = "Station A not found"

\* C13: POST /api/analyze for two distinct known stations whose ranking
\* yields no candidate returns HTTP 404 suggesting to increase max_time; no
\* success response has an empty candidate list.
C13_NoCandidateIsNotFound ==
    call.op = "analyze_commute" =>
        /\ (response.ranked /\ result.raised = "" /\ result.candidates = <<>>) =>
               /\ response.status = 404
               /\ response.detail
                      = "No common reachable stations found. Try increasing max_time."
        /\ response.status = 200 => response.candidates # <<>>

\* The ranking has run for two known stations and found no candidate.
C13_Witness ==
    /\ call.op = "analyze_commute"
    /\ response.ranked
    /\ call.a \in DOMAIN station_info
    /\ call.b \in DOMAIN station_info
    /\ result.candidates = <<>>
    /\ response.status = 404

\* The stations whose title or English title contains the term, whatever
\* the case of either.
MatchingStations(info, search_term) ==
    {x \in DOMAIN info :
        \/ info[x].title # None /\ Contains(Lower(info[x].title), Lower(search_term))
        \/ info[x].title_en # None
           /\ Contains(Lower(info[x].title_en), Lower(search_term))}

\* C14: for every loaded station map, stations without an English title
\* included, and every search term, search_station does not fail and returns
\* exactly the stations whose title or English title contains the term
\* case-insensitively, sorted by title ascending.
C14_SearchExactAndTotal ==
    call.op = "search_station" =>
        /\ result.raised = ""
        /\ {result.results[i].station_id : i \in DOMAIN result.results}
               = MatchingStations(station_info, call.term)
        /\ Len(result.results)
               = Cardinality(MatchingStations(station_info, call.term))
        /\ \A i \in 1..(Len(result.results) - 1) :
               ~TextLess(result.results[i + 1].title, result.results[i].title)

\* The rows of a table that have the identifier id.
RowsWithId(table, id) == {k \in DOMAIN table : table[k].id = id}

\* The last record of a list that has the identifier id.
LastWithId(stations, id) ==
    stations[CHOOSE k \in DOMAIN stations :
                 /\ stations[k].id = id
                 /\ \A j \in DOMAIN stations : stations[j].id = id => j <= k]

\* C16: after a station record is inserted and then a record with the same
\* primary identifier, in the same or a later insert_stations call, the
\* table has exactly one row for that identifier, with the field values of
\* the later record.
C16_LaterRecordWins ==
    [][call'.op = "insert_stations" /\ manager'.inserts = manager.inserts + 1 =>
          \A k \in DOMAIN call'.stations :
              LET id == call'.stations[k].id
              IN  id # NullId =>
                      /\ Cardinality(RowsWithId(db'.stations, id)) = 1
                      /\ \A r \in RowsWithId(db'.stations, id) :
                             db'.stations[r]
                                 = StationRowOf(LastWithId(call'.stations, id))]_vars

\* A call has replaced the row an earlier call stored for the identifier,
\* and the table holds a second identifier beside it.
C16_Witness ==
    /\ call.op = "insert_stations"
    /\ \E k \in DOMAIN result.before : \E j \in DOMAIN call.stations :
        /\ result.before[k].id = call.stations[j].id
        /\ result.before[k].title # call.stations[j].title
        /\ Cardinality(RowsWithId(db.stations, call.stations[j].id)) = 1
    /\ Len(db.stations) >= 2

\* C17: every scoped session ends with its connection closed, whether the
\* body returns or raises; close() on a manager whose connect raised or was
\* never attempted changes nothing, and a further close() leaves the
\* connection closed.  No connection is open once a build, populate,
\* statistics or health-check session has ended.
C17_SessionsReleaseConnection ==
    /\ [](/\ manager.pc = "exited" => manager.conn = "closed"
          /\ manager.pc \in {"new", "failed"} => manager.conn = "None")
    /\ [][manager'.closes = manager.closes + 1 =>
             /\ manager.conn = "None" => manager'.conn = "None"
             /\ manager.conn # "None" => manager'.conn = "closed"]_vars

\* A session whose body raised has ended and close() has been called again
\* on its manager.
C17_Witness ==
    /\ manager.pc = "exited"
    /\ manager.raised
    /\ manager.conn = "closed"
    /\ manager.closes >= 2

\* The keys a fetch call asks for, None resolved to the configured keys.
KeysAsked == IF call.operator_keys = None THEN OPERATORS ELSE call.operator_keys

\* The entry of a key in the dict fetch_all_operators returned.
EntriesOf(operator_key) ==
    {k \in DOMAIN result.all_data : result.all_data[k].key = operator_key}

\* What the API answered to the last requests sent for a key.
LastFetchOf(operator_key) ==
    call.fetch[CHOOSE k \in DOMAIN KeysAsked :
                   /\ KeysAsked[k] = operator_key
                   /\ \A j \in DOMAIN KeysAsked :
                          KeysAsked[j] = operator_key => j <= k]

\* C15: fetch_all_operators over a list of configured keys returns an entry
\* for every key of the list; the entry of an operator whose fetch raised has
\* two empty lists, and every other entry holds what was fetched for its
\* operator, wherever in the list the failing operators stand.
C15_EveryOperatorHasEntry ==
    (call.op = "fetch_all_operators" /\ Range(KeysAsked) \subseteq Range(OPERATORS)) =>
        /\ result.raised = ""
        /\ \A operator_key \in Range(KeysAsked) :
            /\ Cardinality(EntriesOf(operator_key)) = 1
            /\ \A k \in EntriesOf(operator_key) :
                LET fetch == LastFetchOf(operator_key)
                    entry == result.all_data[k]
                IN  IF fetch \in {"stations_raise", "railways_raise", "no_credential"}
                    THEN entry.stations = <<>> /\ entry.railways = <<>>
                    ELSE /\ entry.stations
                                = FetchData("Station", operator_key, fetch).data
                         /\ entry.railways
                                = FetchData("Railway", operator_key, fetch).data

\* The first operator's Railway request raised and the second operator's
\* requests answered with records.
C15_Witness ==
    /\ call.op = "fetch_all_operators"
    /\ call.operator_keys = <<"KEIKYU", "JR_EAST">>
    /\ call.fetch = <<"railways_raise", "data">>
    /\ Len(result.all_data) = 2
    /\ result.all_data[1].stations = <<>>
    /\ result.all_data[2].stations # <<>>

\* A fetch call names a key that is not configured.
NamesUnconfigured(c) ==
    /\ c.operator_keys # None
    /\ \E k \in DOMAIN c.operator_keys :
           (IF c.op = "cmd_fetch" THEN StripUpper(c.operator_keys[k])
            ELSE c.operator_keys[k]) \notin Range(OPERATORS)

MatchesOf(station) == Len(SearchStation(station_info, station).results)

\* C19: when the two names given to the analyze command resolve to the same
\* station identifier, the command exits nonzero without running the
\* ranking.
C19_SameStationFails ==
    (call.op = "cmd_analyze" /\ result.pc = "returned"
         /\ result.a # NoStation /\ result.a = result.b) =>
        result.exit # 0 /\ ~result.ranked

\* C20: the analyze command exits 0 exactly when both names were resolved
\* and the ranking returned at least one candidate.  It exits 1 when either
\* search has no match, and then no selection prompt has been shown; when a
\* selection is not a number or is out of range; when the ranking returns
\* no candidate; and when the ranking raises.
C20_ExitCode ==
    (call.op = "cmd_analyze" /\ result.pc = "returned") =>
        /\ result.exit \in {0, 1}
        /\ result.exit = 0 <=>
               /\ result.a # NoStation
               /\ result.b # NoStation
               /\ result.ranked
               /\ result.candidates # <<>>
        /\ (MatchesOf(call.station_a) = 0
                \/ MatchesOf(call.station_b) = 0) =>
               result.exit = 1 /\ result.prompts = 0 /\ ~result.ranked
        /\ (MatchesOf(call.station_a) > 1
                /\ MatchesOf(call.station_b) > 0
                /\ (~call.choice_a.numeric
                        \/ call.choice_a.value \notin 1..MatchesOf(call.station_a))) =>
               result.exit = 1 /\ ~result.ranked
        /\ (MatchesOf(call.station_a) > 0
                /\ MatchesOf(call.station_b) > 1
                /\ (~call.choice_b.numeric
                        \/ call.choice_b.value \notin 1..MatchesOf(call.station_b))) =>
               result.exit = 1 /\ ~result.ranked
        /\ (result.ranked /\ result.candidates = <<>>) => result.exit = 1
        /\ result.caught # "" => result.exit = 1

\* Both names matched several stations, both selections were valid, and the
\* ranking returned a candidate: exit code 0 after two prompts.
C20_Witness ==
    /\ call.op = "cmd_analyze"
    /\ result.pc = "returned"
    /\ result.exit = 0
    /\ result.prompts = 2
    /\ result.a # result.b
    /\ result.candidates # <<>>

\* The least element of a set of times.
LeastOf(times) == CHOOSE t \in times : \A u \in times : t <= u

\* One round of relaxation of every edge that leaves a station with a known
\* time.
RelaxAll(graph, d) ==
    LET known == DOMAIN d \cap DOMAIN graph
        nodes == DOMAIN d \cup UNION {{graph[u][k].to_station :
                                           k \in DOMAIN graph[u]} : u \in known}
        into(v) == (IF v \in DOMAIN d THEN {d[v]} ELSE {})
                       \cup UNION {{d[u] + graph[u][k].travel_time :
                                       k \in {j \in DOMAIN graph[u] :
                                                 graph[u][j].to_station = v}} :
                                   u \in known}
    IN  [v \in nodes |-> LeastOf(into(v))]

\* The shortest-path distance from s of every station a path leads to: the
\* relaxation repeated until nothing improves.
RECURSIVE ShortestFrom(_, _)
ShortestFrom(graph, d) ==
    LET next == RelaxAll(graph, d)
    IN  IF next = d THEN d ELSE ShortestFrom(graph, next)

ShortestTimes(graph, s) == ShortestFrom(graph, (s :> 0))

\* The search has returned to its caller.
Returned == Searched /\ result.returned

\* C21: for every graph, start s and bound T >= 0, the mapping returned by
\* _dijkstra_with_path(s, T) holds exactly the stations whose shortest-path
\* distance from s is <= T, each with that distance as its time.
C21_ExactShortestTimes ==
    (Returned /\ call.max_time >= 0) =>
        LET shortest == ShortestTimes(network_graph, call.a)
        IN  /\ DOMAIN result.distances
                   = {v \in DOMAIN shortest : shortest[v] <= call.max_time}
            /\ \A v \in DOMAIN result.distances :
                   result.distances[v].time = shortest[v]

\* A returned search in which a station was pushed a second time, with a
\* better time than the first.
C21_Witness ==
    /\ Returned
    /\ call.max_time >= 0
    /\ \E i, j \in DOMAIN result.st.pushes :
           /\ i < j
           /\ result.st.pushes[i].station = result.st.pushes[j].station
           /\ result.distances[result.st.pushes[j].station].time
                  = result.st.pushes[j].time

RECURSIVE SumTimes(_)
SumTimes(segments) ==
    IF segments = <<>> THEN 0
    ELSE Head(segments).travel_time + SumTimes(Tail(segments))

\* The segments form a path of edges of the graph from s to v.
PathOfEdges(graph, segments, s, v) ==
    /\ segments # <<>>
    /\ segments[1].from_station = s
    /\ segments[Len(segments)].to_station = v
    /\ \A i \in 1..(Len(segments) - 1) :
           segments[i].to_station = segments[i + 1].from_station
    /\ \A i \in DOMAIN segments :
           HasEdge(graph, segments[i].from_station,
                   Edge(segments[i].to_station, segments[i].travel_time,
                        segments[i].railway, segments[i].num_stops))

\* C22: in the mapping returned by _dijkstra_with_path(s, T) the start has
\* time 0 and an empty route; for every other station v the route's segments
\* are a contiguous path of edges of the graph from s to v, total_time
\* equals the entry's time and the sum of the segments' travel times, and
\* total_stops equals the sum of the segments' stop counts.
C22_RoutesArePaths ==
    Returned =>
        /\ result.distances[call.a] = [time |-> 0, route |-> Route(<<>>, 0, 0)]
        /\ \A v \in DOMAIN result.distances \ {call.a} :
               LET entry == result.distances[v]
               IN  /\ PathOfEdges(network_graph, entry.route.segments, call.a, v)
                   /\ entry.route.total_time = entry.time
                   /\ entry.route.total_time = SumTimes(entry.route.segments)
                   /\ entry.route.total_stops = SumStops(entry.route.segments)

\* A returned route of a railway segment and a transfer.
C22_Witness ==
    /\ Returned
    /\ \E v \in DOMAIN result.distances :
           LET segments == result.distances[v].route.segments
           IN  /\ Len(segments) = 2
               /\ \E i \in DOMAIN segments : segments[i].railway = Transfer
               /\ \E i \in DOMAIN segments : segments[i].railway # Transfer

\* C29: at every step of _dijkstra_with_path no two entries of the priority
\* queue have the same time and the same station, and the entries pushed for
\* one station have strictly decreasing times.
C29_HeapEntriesDistinct ==
    Searched =>
        /\ \A x, y \in result.st.pq :
               (x.time = y.time /\ x.station = y.station) => x = y
        /\ \A i, j \in DOMAIN result.st.pushes :
               (i < j /\ result.st.pushes[i].station = result.st.pushes[j].station)
                   => result.st.pushes[j].time < result.st.pushes[i].time

\* The queue holds two entries for one station, pushed with different times.
C29_Witness ==
    /\ Searched
    /\ \E x, y \in result.st.pq : x.station = y.station /\ x.time < y.time

\* The stations that have a time within T in a map of shortest times.
WithinOf(times, T) == {v \in DOMAIN times : times[v] <= T}

\* The distance between two times.
Apart(t, u) == IF t >= u THEN t - u ELSE u - t

\* The set C of the ranking, from the shortest times from A and from B:
\* reached from both work stations within the bound, the work stations
\* themselves left out.
CommonWithin(timeA, timeB) ==
    (WithinOf(timeA, call.max_time) \cap WithinOf(timeB, call.max_time))
        \ {call.a, call.b}

\* The key (total_time, time_difference) x is strictly smaller than y.
SmallerKey(x, y) ==
    x[1] < y[1] \/ (x[1] = y[1] /\ x[2] < y[2])

ReturnedIds == {result.candidates[i].station_id : i \in DOMAIN result.candidates}

\* C23: for top_n >= 1, find_optimal_stations(A, B, top_n, T) returns
\* min(top_n, |C|) candidates, each a member of C and none twice, and no
\* member of C that is left out has a strictly smaller (total_time,
\* time_difference) key than a returned candidate.
C23_BestOfCommon ==
    (RankedCall /\ call.top_n >= 1) =>
        LET timeA == ShortestTimes(network_graph, call.a)
            timeB == ShortestTimes(network_graph, call.b)
            C == CommonWithin(timeA, timeB)
        IN  /\ result.raised = ""
            /\ Len(result.candidates) = Min(call.top_n, Cardinality(C))
            /\ ReturnedIds \subseteq C
            /\ Cardinality(ReturnedIds) = Len(result.candidates)
            /\ \A v \in C \ ReturnedIds : \A i \in DOMAIN result.candidates :
                   ~SmallerKey(<<timeA[v] + timeB[v], Apart(timeA[v], timeB[v])>>,
                               <<result.candidates[i].total_time,
                                 result.candidates[i].time_difference>>)

\* A ranking that returns top_n candidates and leaves out a member of C
\* whose key is greater than a returned candidate's.
C23_Witness ==
    /\ RankedCall
    /\ call.top_n >= 1
    /\ Len(result.candidates) = call.top_n
    /\ LET timeA == ShortestTimes(network_graph, call.a)
           timeB == ShortestTimes(network_graph, call.b)
       IN  \E v \in CommonWithin(timeA, timeB) \ ReturnedIds :
           \E i \in DOMAIN result.candidates :
               SmallerKey(<<result.candidates[i].total_time,
                            result.candidates[i].time_difference>>,
                          <<timeA[v] + timeB[v], Apart(timeA[v], timeB[v])>>)

\* C24: every candidate v returned by find_optimal_stations(A, B, top_n,
\* max_time) has total_time = timeA(v) + timeB(v), time_difference =
\* |timeA(v) - timeB(v)| and balance_score = 1 - time_difference / max_time,
\* timeA and timeB being the shortest-path times from A and from B; with
\* max_time = 120 a time_difference of 0 gives 1 and one of 120 gives 0.
C24_CandidateFigures ==
    RankedCall =>
        LET timeA == ShortestTimes(network_graph, call.a)
            timeB == ShortestTimes(network_graph, call.b)
        IN  \A i \in DOMAIN result.candidates :
            LET c == result.candidates[i]
                v == c.station_id
            IN  /\ c.total_time = timeA[v] + timeB[v]
                /\ c.time_difference = Apart(timeA[v], timeB[v])
                /\ c.balance_score.den # 0
                /\ c.balance_score.num * call.max_time
                       = (call.max_time - c.time_difference) * c.balance_score.den
                /\ (call.max_time = DEFAULT_MAX_COMMUTE_TIME /\ c.time_difference = 0)
                       => c.balance_score.num = c.balance_score.den
                /\ (call.max_time = DEFAULT_MAX_COMMUTE_TIME
                        /\ c.time_difference = DEFAULT_MAX_COMMUTE_TIME)
                       => c.balance_score.num = 0

\* A ranking with max_time = 120 that returns a candidate nearer to A than
\* to B and a candidate at equal times from both, whose score is 1.
C24_Witness ==
    /\ RankedCall
    /\ call.max_time = DEFAULT_MAX_COMMUTE_TIME
    /\ \E i \in DOMAIN result.candidates :
           /\ result.candidates[i].time_difference > 0
           /\ result.candidates[i].route_from_a.total_time
                  < result.candidates[i].route_from_b.total_time
    /\ \E i \in DOMAIN result.candidates :
           /\ result.candidates[i].time_difference = 0
           /\ result.candidates[i].balance_score.num
                  = result.candidates[i].balance_score.den

\* C30: for a fixed built graph, pair of work stations, top_n and max_time,
\* every call to find_optimal_stations returns the same candidate station
\* identifiers in the same order, whatever order the common-station set is
\* iterated in.
C30_RankingDeterministic ==
    RankedCall =>
        \A other \in Ranked(Engine, call.a, call.b, call.top_n, call.max_time) :
            [i \in DOMAIN other.candidates |-> other.candidates[i].station_id]
                = [i \in DOMAIN result.candidates |->
                      result.candidates[i].station_id]

\* The railway rows build_network loads whose station-order text json.loads
\* rejects.
MalformedLoaded(database) ==
    {i \in DOMAIN database.railways :
        /\ database.railways[i].same_as # NullId
        /\ ~database.railways[i].order_is_null
        /\ ~database.railways[i].station_order.valid}

\* The database with those rows absent.
WithoutMalformed(database) ==
    [database EXCEPT !.railways =
        SelectSeq(@, LAMBDA row : ~(row.same_as # NullId /\ ~row.order_is_null
                                        /\ ~row.station_order.valid))]

\* C27: a build over railway rows of which one has a station-order text that
\* is not valid JSON completes, no edge of the graph carries that railway's
\* id, and the graph is the one the build gives over the same rows with the
\* malformed one absent, whether the malformed row is loaded first or last.
C27_MalformedOrderSkipped ==
    (builds = 1 /\ MalformedLoaded(db) # {}) =>
        /\ \A i \in MalformedLoaded(db) : \A x \in DOMAIN network_graph :
               \A k \in DOMAIN network_graph[x] :
                   network_graph[x][k].railway # db.railways[i].same_as
        /\ \E list_order \in ListOrders(NewEngine, WithoutMalformed(db)) :
               LET other == BuildNetwork(NewEngine, WithoutMalformed(db), list_order)
               IN  /\ other.transfer_stations = transfer_stations
                   /\ other.network_graph = network_graph

\* A build over two railway rows, the first malformed and the second well
\* formed, after which the graph holds the second railway's edges.
C27_Witness ==
    /\ builds = 1
    /\ Len(db.railways) = 2
    /\ MalformedLoaded(db) = {1}
    /\ db.railways[2].same_as # NullId
    /\ \E x \in DOMAIN network_graph : \E k \in DOMAIN network_graph[x] :
           network_graph[x][k].railway = db.railways[2].same_as

\* C28: a POST /api/analyze request with two distinct station identifiers of
\* the loaded station map, for which the ranking yields at least one
\* candidate, is answered by the success response carrying those candidates,
\* whatever the stored coordinates of the work stations, the candidates and
\* the stations on the routes are, a NULL latitude or longitude included.
C28_SuccessWhateverCoordinates ==
    (/\ call.op = "analyze_commute"
     /\ call.a # call.b
     /\ call.a \in DOMAIN station_info
     /\ call.b \in DOMAIN station_info
     /\ response.ranked
     /\ result.raised = ""
     /\ result.candidates # <<>>) =>
        /\ response.status = 200
        /\ response.candidates = [i \in DOMAIN result.candidates |->
                                     result.candidates[i].station_id]

\* The records of every operator of the data, in the order of the inserts.
RECURSIVE RecordsOf(_, _)
RecordsOf(data, kind) ==
    IF data = <<>> THEN <<>>
    ELSE Head(data)[kind] \o RecordsOf(Tail(data), kind)

Populated == call.op = "populate_database"

\* C25: after populate_database(data), whatever the database held, the five
\* tables exist and hold no row from before, the three tables that are not
\* written are empty, and the stations and railways tables hold exactly one
\* row for each identifier among data's records, that of the last record
\* with the identifier, and no row of any other identifier.
C25_PopulateReplacesEverything ==
    Populated =>
        LET stations == RecordsOf(result.data, "stations")
            railways == RecordsOf(result.data, "railways")
        IN  /\ Tables \subseteq DOMAIN db
            /\ \A t \in Tables \ {"stations", "railways"} : db[t] = <<>>
            /\ \A t \in Tables \cap DOMAIN result.before :
                   \A k \in DOMAIN db[t] : db[t][k] \notin Range(result.before[t])
            /\ \A k \in DOMAIN stations :
                   stations[k].id # NullId =>
                       /\ Cardinality(RowsWithId(db.stations, stations[k].id)) = 1
                       /\ \A r \in RowsWithId(db.stations, stations[k].id) :
                              db.stations[r]
                                  = StationRowOf(LastWithId(stations, stations[k].id))
            /\ \A k \in DOMAIN railways :
                   /\ Cardinality(RowsWithId(db.railways, railways[k].id)) = 1
                   /\ \A r \in RowsWithId(db.railways, railways[k].id) :
                          db.railways[r]
                              = RailwayRowOf(LastWithId(railways, railways[k].id))
            /\ \A r \in DOMAIN db.stations :
                   \E k \in DOMAIN stations : stations[k].id = db.stations[r].id
            /\ \A r \in DOMAIN db.railways :
                   \E k \in DOMAIN railways : railways[k].id = db.railways[r].id

\* A populate over a database whose five tables held rows, with two
\* operators whose records share a station identifier and a railway
\* identifier with each other and with the old rows.
C25_Witness ==
    /\ Populated
    /\ Len(result.data) = 2
    /\ \A t \in Tables : t \in DOMAIN result.before /\ result.before[t] # <<>>
    /\ result.data[2].stations # <<>>
    /\ result.data[2].railways # <<>>
    /\ \E i \in DOMAIN result.data[1].stations :
           /\ result.data[1].stations[i].id = result.data[2].stations[1].id
           /\ result.data[1].stations[i].id = result.before.stations[1].id
           /\ result.data[1].stations[i].title # result.data[2].stations[1].title
    /\ \E i \in DOMAIN result.data[1].railways :
           /\ result.data[1].railways[i].id = result.data[2].railways[1].id
           /\ result.data[1].railways[i].id = result.before.railways[1].id
    /\ Len(db.stations) = 2

\* C26: fetch_operator_data for a configured operator raises nothing and
\* returns either both lists as fetched or two empty lists: when the Station
\* request answers and the Railway request raises, the stations fetched are
\* not returned; when the Station request raises, or the API key is
\* missing, no Railway request is sent.
C26_BothListsOrNone ==
    (call.op = "fetch_operator_data" /\ call.operator_keys[1] \in Range(OPERATORS)) =>
        LET operator_key == call.operator_keys[1]
            fetch == call.fetch[1]
        IN  /\ result.raised = ""
            /\ \/ result.stations = <<>> /\ result.railways = <<>>
               \/ /\ fetch \in {"data", "empty"}
                  /\ result.stations = FetchData("Station", operator_key, fetch).data
                  /\ result.railways = FetchData("Railway", operator_key, fetch).data
            /\ fetch \in {"data", "empty"} =>
                   /\ result.stations = FetchData("Station", operator_key, fetch).data
                   /\ result.railways = FetchData("Railway", operator_key, fetch).data
            /\ fetch = "railways_raise" =>
                   /\ result.requests = <<"Station", "Railway">>
                   /\ result.stations = <<>>
            /\ fetch = "stations_raise" => result.requests = <<"Station">>
            /\ fetch = "no_credential" => result.requests = <<>>

\* A fetch whose Station request answered with records and whose Railway
\* request raised.
C26_Witness ==
    /\ call.op = "fetch_operator_data"
    /\ call.operator_keys[1] \in Range(OPERATORS)
    /\ call.fetch[1] = "railways_raise"
    /\ FetchData("Station", call.operator_keys[1], call.fetch[1]).data # <<>>
    /\ result.requests = <<"Station", "Railway">>
    /\ result.stations = <<>>
    /\ result.railways = <<>>

====
